---------------------------- MODULE Spec2Model ----------------------------
(***************************************************************************)
(* Event detection, event prediction, scoring and criteria optimisation of *)
(* the EFAS skill assessment (src/py/compute.py, src/py/optimize.py).      *)
(*                                                                         *)
(* Every function of the pipeline is modelled as an operator that computes *)
(* what the Python code computes on one series / one table, and as an      *)
(* action that applies it to the data held in the state.  The data are     *)
(* drawn by the initial predicate of the specification of each function    *)
(* family; the call parameters are drawn by the actions.                   *)
(***************************************************************************)
EXTENDS Integers, Sequences, FiniteSets, TLC

VARIABLES
    series,       \* count_events: the 0/1 series `da` along 'datetime'
    n_events,     \* count_events: the value returned by the last call
    obs,          \* events2hits: observed 0/1 series
    pred,         \* events2hits: predicted 0/1 series (same datetime axis)
    hits,         \* events2hits: the Dataset {TP, FN, FP} of the last call
    attrs,        \* events2hits.buffer / events2hits.true_positives
    discharge,    \* identify_events: table station -> discharge series
    events,       \* identify_events: thresholds and table of the last call
    exceedance_da, \* exceedance2events: exceedance along 'leadtime', in percent
    predicted,    \* exceedance2events: arguments and result of the call
    skill,        \* find_best_criterion: skill[x][y][c], c along `dim`
    best,         \* find_best_criterion: arguments and result of the call
    stricter,     \* exceedance2events: the same call with persistence (a + 1, b)
    counts,       \* hits2skill: the hits {TP, FN, FP} of one cell
    scores,       \* hits2skill: beta and the skill returned by the last call
    criteria,     \* find_best_criteria: arguments and result of the call
    station_hits, \* find_best_criteria_cv, hits_by_area: hits[id][c], c along the
                  \* other dimension of the dataset
    cv,           \* find_best_criteria_cv: the folds and the results of the call
    stations,     \* identify_events: the station index of upper_bound / lower_bound
    single,       \* identify_events: the same table and upper_bound, lower_bound=None
    datetime,     \* events2hits: first label of the datetime axis of obs and of pred
    forecast,     \* discharge2exceedance: one forecast file of one model
    exc,          \* discharge2exceedance: the exceedance computed from the file
    cv_again,     \* find_best_criteria_cv: a second call on the same hits
    station_area, \* hits_by_area: catchment area of every station
    hits_area     \* hits_by_area: area_ranges and the Dataset returned

vars == <<series, n_events, obs, pred, hits, attrs, discharge, events,
          exceedance_da, predicted, skill, best, stricter, counts, scores,
          criteria, station_hits, cv, stations, single, datetime, forecast,
          exc, cv_again, station_area, hits_area>>

-----------------------------------------------------------------------------
(* Bounds of the model *)

\* longest series handed to count_events alone
MaxLenCount == 10
\* longest datetime axis of obs/pred in events2hits
MaxT == 5
\* widest rolling window of buffer_events
MaxW == 4
\* most cells (stations x timesteps) of a discharge table
MaxCells == 6
\* longest leadtime axis of an exceedance array
MaxLeadtimes == 3
\* largest a and b of a persistence criterion (a, b)
MaxPersistence == 3
\* most cells of a skill dataset
MaxGridCells == 4
\* largest TP, FN or FP of a cell of hits handed to hits2skill alone
MaxHits == 5
\* largest number of folds of a cross-validation
MaxFolds == 2
\* most cells (stations x coordinates) of the hits of a cross-validation
MaxCVCells == 6
\* most cells of a discharge table whose thresholds have another station index
MaxAlignCells == 2
\* most forecast steps of a forecast file (the analysis step included)
MaxSteps == 42
\* most members of a forecast file
MaxMembers == 2
MaxAreaCells == 4

-----------------------------------------------------------------------------
(* Generic helpers *)

Bit == {0, 1}

\* a missing (NaN) cell of an array of numbers
Missing == 0 - 1

\* all sequences over S of length 1..n
SeqsUpTo(S, n) == UNION {[1..k -> S] : k \in 1..n}

Min(a, b) == IF a <= b THEN a ELSE b
Max(a, b) == IF a >= b THEN a ELSE b

RECURSIVE SumSeq(_)
\* sum of a sequence of integers (xarray .sum(dim))
SumSeq(s) == IF s = <<>> THEN 0 ELSE s[1] + SumSeq(Tail(s))

\* number of maximal runs of 1 in a 0/1 series, stated on the positions (used
\* by the properties, not by the functions)
RisingEdges(s) ==
    Cardinality({i \in 1..Len(s) : s[i] = 1 /\ (i = 1 \/ s[i-1] = 0)})

-----------------------------------------------------------------------------
(* count_events -- compute.py:362-381 *)

\* da.diff('datetime'): one value per timestep from the second on
Diff(da) == [i \in 1..(Len(da) - 1) |-> da[i+1] - da[i]]

\* mutant: every 1 of the series counts as an onset
Onsets_everyOne(da) == da

\* xr.concat([da.isel(datetime=[0]), da.diff('datetime')]) == 1, as 0/1
Onsets(da) ==
    LET first == SubSeq(da, 1, 1)
        cat   == first \o Diff(da)
    IN  [i \in 1..Len(cat) |-> IF cat[i] = 1 THEN 1 ELSE 0]

count_events(da) == SumSeq(Onsets(da))

-----------------------------------------------------------------------------
(* buffer_events -- compute.py:327-358 *)

\* min_periods of the rolling sum: int(w / 2) + 1 if centered, else 1
MinPeriods(center, w) == IF center THEN (w \div 2) + 1 ELSE 1

\* positions covered by the rolling window labelled i (positions outside the
\* axis are padding): centered [i - w\div 2, i + w - 1 - w\div 2], trailing
\* [i - w + 1, i]
Window(i, center, w) ==
    IF center THEN (i - (w \div 2)) .. (i + (w - 1 - (w \div 2)))
              ELSE (i - w + 1) .. i

\* (da.rolling({'datetime': w}, center, min_periods).sum() > 0).astype(int):
\* the sum is missing when fewer than min_periods cells of the window hold a
\* value, and a missing sum is not > 0
buffer_events(da, center, w) ==
    [i \in 1..Len(da) |->
        LET valid == {j \in Window(i, center, w) \cap (1..Len(da)) : da[j] # Missing}
            total == Cardinality({j \in valid : da[j] = 1})
        IN  IF Cardinality(valid) >= MinPeriods(center, w) /\ total > 0
            THEN 1 ELSE 0]

-----------------------------------------------------------------------------
(* events2hits -- compute.py:385-445 *)

\* the labels of a series of n timesteps whose first label is `first`
Labels(first, n) == first .. (first + n - 1)

\* buff.where(obs == 1), then (tp == 1).astype(int): `where` aligns the two
\* arrays on the datetime labels they share (inner join), so tp has one cell
\* per common label; axes.obs and axes.pred are the first labels of the axes
TruePositiveSeries(o, buff, axes) ==
    LET lo == Max(axes.obs, axes.pred)
        hi == Min(axes.obs + Len(o) - 1, axes.pred + Len(buff) - 1)
    IN  [i \in 1..(hi - lo + 1) |->
            IF o[lo + i - axes.obs] = 1 /\ buff[lo + i - axes.pred] = 1
            THEN 1 ELSE 0]

\* mutant: the onsets of the masked series are not capped
CapTP_nocap(tpCount, nObs) == tpCount

\* TP = xr.ufuncs.minimum(TP, n_obs)
CapTP(tpCount, nObs) == Min(tpCount, nObs)

\* mutant: predicted events are counted on the raw prediction
PredictedCount_raw(p, buff) == count_events(p)

\* n_pred of [count_events(da) for da in [obs, buff]]
PredictedCount(p, buff) == count_events(buff)

\* FP = xr.ufuncs.maximum(0, n_pred - TP)
FalsePositives(nPred, TP) == Max(0, nPred - TP)

\* events2hits(obs, pred, center, w), obs and pred each on its datetime axis;
\* the selections of compute.py:420-425 are not assigned, so obs and pred
\* enter the computation as given
events2hits(o, p, axes, center, w) ==
    LET buff  == buffer_events(p, center, w)
        tp    == TruePositiveSeries(o, buff, axes)
        nObs  == count_events(o)
        nPred == PredictedCount(p, buff)
        TP    == CapTP(count_events(tp), nObs)
    IN  [TP |-> TP, FN |-> nObs - TP, FP |-> FalsePositives(nPred, TP),
         buffer |-> buff, true_positives |-> tp]

-----------------------------------------------------------------------------
(* identify_events -- compute.py:18-81 *)

\* station identifiers, discharge values and threshold values of the tables
StationIds == {1, 2}
DischargeValues == {2, 3, 5, 6}
ThresholdValues == {3, 5}

BoolInt(b) == IF b THEN 1 ELSE 0

\* discharge.align(bound, join='inner', axis=1): the stations kept
AlignedStations(cols, index) == cols \cap index

\* (discharge > bound) for one station
Exceed(q, bound) == [t \in 1..Len(q) |-> q[t] > bound]

\* exceed.astype(int).diff(): undefined on the first row, else the difference
\* with the previous row; the comparison with a missing value is False
DiffEquals(exceed, t, v) ==
    t > 1 /\ BoolInt(exceed[t]) - BoolInt(exceed[t-1]) = v

\* mutant: the first timestep counts as a crossing when it exceeds the bound
MaskUp_firstRow(q, upper) ==
    [t \in 1..Len(q) |->
        IF t = 1 THEN q[1] > upper ELSE DiffEquals(Exceed(q, upper), t, 1)]

\* mask_up = (exceed_up.astype(int).diff() == 1), one station
MaskUp(q, upper) == [t \in 1..Len(q) |-> DiffEquals(Exceed(q, upper), t, 1)]

\* mask_low = (exceed_low.astype(int).diff() == -1), one station
MaskLow(q, lower) == [t \in 1..Len(q) |-> DiffEquals(Exceed(q, lower), t, 0 - 1)]

RECURSIVE SortedSeq(_)
\* the index of the rows selected by a mask, in chronological order
SortedSeq(S) ==
    IF S = {} THEN <<>>
    ELSE LET m == CHOOSE x \in S : \A y \in S : x <= y
         IN  <<m>> \o SortedSeq(S \ {m})

RECURSIVE WalkCandidates(_, _, _)
\* for event in events_stn_pre[1:]:
\*     if any(mask_low[stn].loc[events_stn[-1]:event]): events_stn.append(event)
\* (.loc slices by label and includes both ends)
WalkCandidates(rest, events_stn, mask_low) ==
    IF rest = <<>> THEN events_stn
    ELSE LET event == Head(rest)
             last  == events_stn[Len(events_stn)]
             keep  == \E t \in last..event : mask_low[t]
         IN  WalkCandidates(Tail(rest),
                            IF keep THEN Append(events_stn, event) ELSE events_stn,
                            mask_low)

\* mutant: only the first upward crossing is kept as an onset
DefiniteEvents_first(mask_up, mask_low) ==
    {t \in 1..Len(mask_up) : mask_up[t] /\ \A u \in 1..(t-1) : ~mask_up[u]}

\* mutant: every upward crossing is kept as an onset
DefiniteEvents_all(mask_up, mask_low) ==
    {t \in 1..Len(mask_up) : mask_up[t]}

\* the definite list of events of one station (compute.py:68-79), as a set
DefiniteEvents(mask_up, mask_low) ==
    LET events_stn_pre == SortedSeq({t \in 1..Len(mask_up) : mask_up[t]})
    IN  IF events_stn_pre = <<>> THEN {}
        ELSE LET events_stn == WalkCandidates(Tail(events_stn_pre),
                                              <<Head(events_stn_pre)>>, mask_low)
             IN  {events_stn[k] : k \in 1..Len(events_stn)}

\* `not all(discharge.columns == bound.index)` after the alignment
\* (compute.py:46-47, 58-59): align(join='inner', axis=1) returns both objects
\* reindexed to the joined labels, and those are compared position by position
ReportsMismatch(cols, index) ==
    LET columns == SortedSeq(AlignedStations(cols, index))
        idx     == SortedSeq(AlignedStations(cols, index))
    IN  ~(\A i \in 1..Len(columns) : columns[i] = idx[i])

\* the bounds for which the ERROR line is printed by a call
PrintedErrors(q, upper, lowerOpt) ==
    LET cols1 == AlignedStations(DOMAIN q, DOMAIN upper)
    IN  {b \in {"upper_bound"} : ReportsMismatch(DOMAIN q, DOMAIN upper)}
            \cup {b \in {"lower_bound"} :
                    /\ lowerOpt # <<>>
                    /\ ReportsMismatch(cols1, DOMAIN lowerOpt[1])}

\* identify_events(discharge, upper_bound, lower_bound): q is the table
\* station -> series, upper a function station -> threshold, lowerOpt is <<>>
\* (lower_bound=None) or <<lower>>
identify_events(q, upper, lowerOpt) ==
    LET cols1 == AlignedStations(DOMAIN q, DOMAIN upper)
    IN  IF lowerOpt = <<>>
        THEN [stn \in cols1 |-> MaskUp(q[stn], upper[stn])]
        ELSE LET lower == lowerOpt[1]
                 cols2 == AlignedStations(cols1, DOMAIN lower)
             IN  [stn \in cols2 |->
                    LET mask_up  == MaskUp(q[stn], upper[stn])
                        mask_low == MaskLow(q[stn], lower[stn])
                        onsets   == DefiniteEvents(mask_up, mask_low)
                    IN  [t \in 1..Len(q[stn]) |-> t \in onsets]]

-----------------------------------------------------------------------------
(* discharge2exceedance -- compute.py:85-142, one file and one station *)

\* compute.py:11-14
models ==
    [COS |-> [members |-> 20, leadtimes |-> 22],
     DWD |-> [members |-> 1,  leadtimes |-> 28],
     EUD |-> [members |-> 1,  leadtimes |-> 40],
     EUE |-> [members |-> 51, leadtimes |-> 40]]

\* mutant: the first forecast step is kept
DropAnalysis_keep(dis) == dis

\* xr.open_dataarray(file).isel(time=slice(1, None))
DropAnalysis(dis) == Tail(dis)

\* limit the forecast to the maximum leadtime of the model
LimitLeadtimes(dis, model) ==
    IF Len(dis) > models[model].leadtimes
    THEN SubSeq(dis, 1, models[model].leadtimes)
    ELSE dis

\* dis['leadtime'] = [timedelta(hours=(i + 1) * 6) for i in range(len(...))],
\* in hours
LeadtimeLabels(n) == [k \in 1..n |-> ((k - 1) + 1) * 6]

\* exc = dis > thresholds, and exc.mean('member') if there is a member axis:
\* a boolean without member axis, else the quotient <<members above, members>>
ExceedanceOfStep(step, member, threshold) ==
    IF member
    THEN <<Cardinality({mm \in DOMAIN step : step[mm] > threshold}), Len(step)>>
    ELSE step[1] > threshold

\* the body of the loop over the files, for one file: dis[t] holds the
\* discharge of forecast step t - 1, one value per member
discharge2exceedance(model, dis, member, threshold) ==
    LET limited == LimitLeadtimes(DropAnalysis(dis), model)
    IN  [leadtime |-> LeadtimeLabels(Len(limited)),
         values   |-> [k \in 1..Len(limited) |->
                          ExceedanceOfStep(limited[k], member, threshold)]]

-----------------------------------------------------------------------------
(* exceedance2events -- compute.py:209-264 *)

\* values of an exceedance cell, in percent (a 0/1 exceedance matrix holds 0
\* and 100 only), and the probability thresholds tried (150 is not a
\* probability)
ExceedanceValues == {0, 50, 100}
ProbabilityThresholds == {50, 100, 150}

\* the 'leadtime' coordinate of an array with n leadtimes, in hours
LeadtimeAxis(n) == [i \in 1..n |-> 12 * i]

\* mutant: the leadtime axis is left in its original order
ReverseLeadtime_identity(x) == x

\* .isel(leadtime=slice(None, None, -1))
ReverseLeadtime(x) == [i \in 1..Len(x) |-> x[Len(x) + 1 - i]]

\* exceedance over the probability threshold, 0/1: probOpt is <<>>
\* (probability=None, `da` is taken as it is) or <<probability>>; the
\* comparison of a missing cell with the threshold is False
Exceedance(x, probOpt) ==
    IF probOpt = <<>>
    THEN [i \in 1..Len(x) |-> x[i] \div 100]
    ELSE [i \in 1..Len(x) |->
            IF x[i] # Missing /\ x[i] >= probOpt[1] THEN 1 ELSE 0]

\* exceedance.rolling({'leadtime': b}, center=False, min_periods=1).sum()
RollingSum(x, b) ==
    [i \in 1..Len(x) |->
        SumSeq(SubSeq(x, Max(1, i - b + 1), i))]

\* mutant: the rolling sum is compared the wrong way round
PersistenceMask_atMost(exceedance, a, b) ==
    [i \in 1..Len(exceedance) |->
        IF RollingSum(exceedance, b)[i] <= a /\ exceedance[i] = 1 THEN 1 ELSE 0]

\* (rolling sum >= persistence[0]) & exceedance
PersistenceMask(exceedance, a, b) ==
    [i \in 1..Len(exceedance) |->
        IF RollingSum(exceedance, b)[i] >= a /\ exceedance[i] = 1 THEN 1 ELSE 0]

\* `events` of compute.py:236-247, on the original leadtime order
PersistedEvents(x, probOpt, a, b) ==
    LET reversed   == ReverseLeadtime(x)
        exceedance == Exceedance(reversed, probOpt)
    IN  ReverseLeadtime(PersistenceMask(exceedance, a, b))

\* events.sel(leadtime=slice(lo, hi)).any('leadtime').astype(int) with the
\* positions selected: hi = 0 stands for None
SelectLeadtimes(axis, lo, hi) ==
    {i \in 1..Len(axis) : axis[i] >= lo /\ (hi = 0 \/ axis[i] <= hi)}

AnyOver(ev, sel) == IF \E i \in sel : ev[i] = 1 THEN 1 ELSE 0

\* mutant: the events are returned without the aggregation over the longer
\* leadtimes
AggregateAll_own(ev, axis) ==
    [error |-> FALSE, labels |-> axis, flags |-> ev]

\* leadtime=None: one flag per leadtime of the axis (compute.py:249-252)
AggregateAll(ev, axis) ==
    [error  |-> FALSE,
     labels |-> axis,
     flags  |-> [i \in 1..Len(axis) |-> AnyOver(ev, SelectLeadtimes(axis, axis[i], 0))]]

\* leadtime an integer or a list: `breaks` is leadtimes[:-1], the last bin is
\* open; a bin is events.sel(leadtime=slice(lt + 1, LT)) and its label the
\* minimum leadtime in it, which does not exist for an empty bin (ValueError)
AggregateBins(ev, axis, breaks) ==
    LET bin(k) == SelectLeadtimes(axis, breaks[k] + 1,
                                  IF k = Len(breaks) THEN 0 ELSE breaks[k+1])
        minOf(sel) == CHOOSE i \in sel : \A j \in sel : i <= j
    IN  IF \E k \in 1..Len(breaks) : bin(k) = {}
        THEN [error |-> TRUE, labels |-> <<>>, flags |-> <<>>]
        ELSE [error  |-> FALSE,
              labels |-> [k \in 1..Len(breaks) |-> axis[minOf(bin(k))]],
              flags  |-> [k \in 1..Len(breaks) |-> AnyOver(ev, bin(k))]]

\* the `leadtime` argument: None, an integer, or a list of breakpoints
NoLeadtime == [kind |-> "None", breaks |-> <<>>]
IntLeadtime(L) == [kind |-> "int", breaks |-> <<L>>]
ListLeadtime(bs) == [kind |-> "list", breaks |-> bs]

exceedance2events(x, probOpt, persistence, leadtime) ==
    LET ev   == PersistedEvents(x, probOpt, persistence[1], persistence[2])
        axis == LeadtimeAxis(Len(x))
        agg  == IF leadtime.kind = "None" THEN AggregateAll(ev, axis)
                ELSE AggregateBins(ev, axis, leadtime.breaks)
    IN  [events |-> ev, error |-> agg.error, labels |-> agg.labels,
         flags |-> agg.flags]

-----------------------------------------------------------------------------
(* hits2skill -- compute.py:449-480 *)

\* A skill value is the exact quotient <<numerator, denominator>> of two
\* non-negative integers; the value is missing (NaN, 0/0 in numpy) when the
\* denominator is 0 (the numerators of hits2skill are then 0 too).
NaN == <<0, 0>>
IsNaN(v) == v[2] = 0

\* mutant: a quotient by zero is replaced by 0
Ratio_zero(n, d) == IF d = 0 THEN <<0, 1>> ELSE <<n, d>>

\* n / d on numpy arrays: 0 / 0 is missing, no exception
Ratio(n, d) == <<n, d>>

\* comparisons and arithmetic of defined values
LtR(v, u) == v[1] * u[2] < u[1] * v[2]
EqR(v, u) == v[1] * u[2] = u[1] * v[2]
SubR(v, u) ==
    IF IsNaN(v) \/ IsNaN(u) THEN NaN
    ELSE <<v[1] * u[2] - u[1] * v[2], v[2] * u[2]>>
AbsR(v) == <<IF v[1] < 0 THEN 0 - v[1] ELSE v[1], v[2]>>

\* .max(dim) / .min(dim) with skipna: missing when every value is missing
MaxR(S) ==
    LET ok == {v \in S : ~IsNaN(v)}
    IN  IF ok = {} THEN NaN ELSE CHOOSE v \in ok : \A u \in ok : ~LtR(v, u)
MinR(S) ==
    LET ok == {v \in S : ~IsNaN(v)}
    IN  IF ok = {} THEN NaN ELSE CHOOSE v \in ok : \A u \in ok : ~LtR(u, v)

\* the values of beta tried, as quotients <<p, q>>: 1, 1/2 and 2
Betas == {<<1, 1>>, <<1, 2>>, <<2, 1>>}

\* recall, precision and f-beta of one cell of hits; with beta = p / q
\* numerator and denominator of the f-beta quotient are both scaled by q * q
hits2skill(h, beta) ==
    LET p2 == beta[1] * beta[1]
        q2 == beta[2] * beta[2]
    IN  [recall    |-> Ratio(h.TP, h.TP + h.FN),
         precision |-> Ratio(h.TP, h.TP + h.FP),
         fbeta     |-> Ratio((q2 + p2) * h.TP,
                             (q2 + p2) * h.TP + p2 * h.FN + q2 * h.FP)]

-----------------------------------------------------------------------------
(* find_best_criterion -- optimize.py:11-62 *)

\* The dataset has the optimised dimension `dim` (positions c = 1..ND, in
\* axis order) and two other dimensions x and y; sk[x][y][c] is a cell.  A
\* selected coordinate is a position of `dim`; 0 stands for a missing one.
XS(sk) == DOMAIN sk
YS(sk) == DOMAIN sk[1]
CS(sk) == DOMAIN sk[1][1]

\* hits of one cell and tolerances tried (-0.01 is not a tolerance)
HitValues == {0, 1}
HitsCells == [TP : HitValues, FN : HitValues, FP : HitValues]
Tolerances == {<<0 - 1, 100>>, <<0, 1>>, <<1, 100>>, <<1, 5>>}

\* hits of one cell and tolerances tried on a chain of reductions
ChainCells == {[TP |-> 0, FN |-> 0, FP |-> 0], [TP |-> 1, FN |-> 1, FP |-> 0],
               [TP |-> 1, FN |-> 0, FP |-> 1]}
ChainTolerances == {<<1, 100>>, <<1, 5>>}

\* hits of one cell whose skill is defined: f1 = 1, 6/7 and 2/3
BoundCells == {[TP |-> 1, FN |-> 0, FP |-> 0], [TP |-> 3, FN |-> 1, FP |-> 0],
               [TP |-> 2, FN |-> 1, FP |-> 1]}

\* delta_metric = skill[metric].max(dim) - skill[metric]
DeltaMetric(sk, x, y, c) ==
    SubR(MaxR({sk[x][y][k].fbeta : k \in CS(sk)}), sk[x][y][c].fbeta)

\* mutant: the band of the candidates is twice the tolerance
WithinTolerance_twice(delta, tolerance) ==
    ~IsNaN(delta) /\ LtR(delta, <<2 * tolerance[1], tolerance[2]>>)

\* mutant: only the coordinates that reach the maximum are candidates
WithinTolerance_maxOnly(delta, tolerance) == ~IsNaN(delta) /\ delta[1] = 0

\* delta_metric < tolerance (False for a missing delta)
WithinTolerance(delta, tolerance) == ~IsNaN(delta) /\ LtR(delta, tolerance)

IsCandidate(sk, tolerance, x, y, c) ==
    WithinTolerance(DeltaMetric(sk, x, y, c), tolerance)

\* skill.where(cond, drop=True): along every dimension, the labels at which
\* the condition holds nowhere are dropped
KeptX(sk, tolerance) ==
    {x \in XS(sk) : \E y \in YS(sk), c \in CS(sk) : IsCandidate(sk, tolerance, x, y, c)}
KeptY(sk, tolerance) ==
    {y \in YS(sk) : \E x \in XS(sk), c \in CS(sk) : IsCandidate(sk, tolerance, x, y, c)}
KeptC(sk, tolerance) ==
    {c \in CS(sk) : \E x \in XS(sk), y \in YS(sk) : IsCandidate(sk, tolerance, x, y, c)}

NaNCell == [recall |-> NaN, precision |-> NaN, fbeta |-> NaN]

\* a cell of `candidates`: the skill where the condition holds, else missing
CandidateCell(sk, tolerance, x, y, c) ==
    IF IsCandidate(sk, tolerance, x, y, c) THEN sk[x][y][c] ELSE NaNCell

\* diff_RP = abs(candidates['recall'] - candidates['precision'])
DiffRP(sk, tolerance, x, y, c) ==
    LET cell == CandidateCell(sk, tolerance, x, y, c)
    IN  AbsR(SubR(cell.recall, cell.precision))

\* min_spread=True (optimize.py:45-51): best_dim = diff_RP.idxmin(dim), the
\* first coordinate with the smallest defined difference, missing when no
\* difference is defined; best_skill = the maximum along dim, variable by
\* variable, over the candidates whose difference equals the smallest one
SelectMinSpread(sk, tolerance, x, y) ==
    LET kept  == KeptC(sk, tolerance)
        d(c)  == DiffRP(sk, tolerance, x, y, c)
        valid == {c \in kept : ~IsNaN(d(c))}
        least == MinR({d(c) : c \in kept})
        tied  == {c \in valid : EqR(d(c), least)}
    IN  IF valid = {}
        THEN [dim |-> 0, recall |-> NaN, precision |-> NaN, fbeta |-> NaN]
        ELSE [dim       |-> CHOOSE c \in tied : \A k \in tied : c <= k,
              recall    |-> MaxR({sk[x][y][c].recall : c \in tied}),
              precision |-> MaxR({sk[x][y][c].precision : c \in tied}),
              fbeta     |-> MaxR({sk[x][y][c].fbeta : c \in tied})]

\* mutant: the coordinate of the largest metric is selected (idxmax of the
\* metric instead of idxmax of the mask)
SelectFirst_argmax(sk, tolerance, x, y) ==
    LET kept   == KeptC(sk, tolerance)
        masked == {c \in kept : ~IsNaN(CandidateCell(sk, tolerance, x, y, c).fbeta)}
        top    == {c \in masked : \A k \in masked :
                      ~LtR(sk[x][y][c].fbeta, sk[x][y][k].fbeta)}
        from   == IF masked = {} THEN kept ELSE top
        first  == CHOOSE c \in from : \A k \in from : c <= k
        cell   == CandidateCell(sk, tolerance, x, y, first)
    IN  [dim |-> first, recall |-> cell.recall, precision |-> cell.precision,
         fbeta |-> cell.fbeta]

\* min_spread=False (optimize.py:52-57): mask = ~candidates[metric].isnull();
\* best_dim = mask.idxmax(dim), the first coordinate where the mask holds and
\* the first coordinate kept when it holds nowhere (argmax of all False);
\* best_skill = candidates.sel({dim: best_dim})
SelectFirst(sk, tolerance, x, y) ==
    LET kept   == KeptC(sk, tolerance)
        masked == {c \in kept : ~IsNaN(CandidateCell(sk, tolerance, x, y, c).fbeta)}
        from   == IF masked = {} THEN kept ELSE masked
        first  == CHOOSE c \in from : \A k \in from : c <= k
        cell   == CandidateCell(sk, tolerance, x, y, first)
    IN  [dim |-> first, recall |-> cell.recall, precision |-> cell.precision,
         fbeta |-> cell.fbeta]

\* find_best_criterion(skill, dim, metric, tolerance, min_spread): when no
\* coordinate is kept, idxmin/idxmax reduce an empty axis and raise; else one
\* selection for every (x, y) kept
find_best_criterion(sk, tolerance, min_spread) ==
    IF KeptC(sk, tolerance) = {}
    THEN [error |-> TRUE, rows |-> {}, result |-> <<>>]
    ELSE LET rows == KeptX(sk, tolerance) \X KeptY(sk, tolerance)
         IN  [error  |-> FALSE,
              rows   |-> rows,
              result |-> [r \in rows |->
                            IF min_spread
                            THEN SelectMinSpread(sk, tolerance, r[1], r[2])
                            ELSE SelectFirst(sk, tolerance, r[1], r[2])]]

-----------------------------------------------------------------------------
(* find_best_criteria -- optimize.py:66-102 *)

\* A dataset along the chain of reductions: `names` are the names of the three
\* axes of `grid` ("" for an axis that is only there to keep three of them),
\* `labels` the coordinate labels of each axis, `vars` the names of the
\* variables that hold a selected coordinate, and every cell carries `sel`,
\* the values of those variables (0 for a missing one).
DimNames == <<"approach", "persistence", "probability">>

\* the input dataset `skill` of the chain: no criterion selected yet
AsDataset(sk) ==
    [error  |-> FALSE,
     names  |-> DimNames,
     labels |-> <<[x \in XS(sk) |-> x], [y \in YS(sk) |-> y], [c \in CS(sk) |-> c]>>,
     vars   |-> <<>>,
     grid   |-> [x \in XS(sk) |-> [y \in YS(sk) |-> [c \in CS(sk) |->
                    [recall |-> sk[x][y][c].recall,
                     precision |-> sk[x][y][c].precision,
                     fbeta |-> sk[x][y][c].fbeta,
                     sel |-> <<>>]]]]]

\* the dataset seen with axis k as the last axis (xarray finds `dim` by name)
MoveLast(ds, k) ==
    LET g  == ds.grid
        D1 == DOMAIN g
        D2 == DOMAIN g[1]
        D3 == DOMAIN g[1][1]
    IN  IF k = 3 THEN ds
        ELSE IF k = 2
        THEN [ds EXCEPT !.names  = <<ds.names[1], ds.names[3], ds.names[2]>>,
                        !.labels = <<ds.labels[1], ds.labels[3], ds.labels[2]>>,
                        !.grid   = [a \in D1 |-> [c \in D3 |-> [b \in D2 |-> g[a][b][c]]]]]
        ELSE [ds EXCEPT !.names  = <<ds.names[3], ds.names[2], ds.names[1]>>,
                        !.labels = <<ds.labels[3], ds.labels[2], ds.labels[1]>>,
                        !.grid   = [c \in D3 |-> [b \in D2 |-> [a \in D1 |-> g[a][b][c]]]]]

\* the variables that hold earlier selections, reduced like every variable of
\* the dataset: min_spread=True takes their maximum over the candidates whose
\* recall/precision difference equals the smallest one (optimize.py:51),
\* min_spread=False their value at the selected coordinate of `candidates`
\* (optimize.py:57), missing where the cell is not a candidate
Carried(g, tolerance, spread, x, y, sel) ==
    LET nv == Len(g[x][y][1].sel)
        d(c) == DiffRP(g, tolerance, x, y, c)
        tied == IF sel = 0 THEN {}
                ELSE {c \in KeptC(g, tolerance) :
                        ~IsNaN(d(c)) /\ EqR(d(c), d(sel))}
        largest(S) == CHOOSE v \in S \cup {0} : \A u \in S \cup {0} : u <= v
    IN  [v \in 1..nv |->
            IF spread
            THEN largest({g[x][y][c].sel[v] : c \in tied})
            ELSE IF IsCandidate(g, tolerance, x, y, sel)
                 THEN g[x][y][sel].sel[v] ELSE 0]

RaisedDataset == [error |-> TRUE, names |-> <<>>, labels |-> <<>>, vars |-> <<>>,
                  grid |-> <<>>]

\* skill = find_best_criterion(skill, metric, dim, tolerance, min_spread) on
\* the dataset (optimize.py:100): the axis named dim is reduced, the labels
\* that where(..., drop=True) dropped are gone from the other axes, and dim
\* becomes a variable; a name that is not a dimension raises
ReduceDim(ds, dim, tolerance, spread) ==
    IF ds.error \/ \A k \in 1..3 : ds.names[k] # dim THEN RaisedDataset
    ELSE LET k  == CHOOSE j \in 1..3 : ds.names[j] = dim
             d  == MoveLast(ds, k)
             g  == d.grid
             r  == find_best_criterion(g, tolerance, spread)
             KX == SortedSeq(KeptX(g, tolerance))
             KY == SortedSeq(KeptY(g, tolerance))
         IN  IF r.error THEN RaisedDataset
             ELSE [error  |-> FALSE,
                   names  |-> <<"", d.names[1], d.names[2]>>,
                   labels |-> <<<<1>>,
                                [i \in 1..Len(KX) |-> d.labels[1][KX[i]]],
                                [j \in 1..Len(KY) |-> d.labels[2][KY[j]]]>>,
                   vars   |-> Append(d.vars, dim),
                   grid   |-> [u \in {1} |-> [i \in 1..Len(KX) |-> [j \in 1..Len(KY) |->
                      LET out == r.result[<<KX[i], KY[j]>>]
                          lab == IF out.dim = 0 THEN 0 ELSE d.labels[3][out.dim]
                      IN  [recall |-> out.recall,
                           precision |-> out.precision,
                           fbeta |-> out.fbeta,
                           sel |-> Append(Carried(g, tolerance, spread,
                                                  KX[i], KY[j], out.dim), lab)]]]]]

\* the arguments `dims` and `min_spread`: a single value or a tuple
StrDims(name) == [single |-> TRUE, values |-> <<name>>]
TupleDims(names) == [single |-> FALSE, values |-> names]
BoolSpread(b) == [single |-> TRUE, values |-> <<b>>]
TupleSpread(bs) == [single |-> FALSE, values |-> bs]

\* if isinstance(min_spread, bool): min_spread = (min_spread,) * len(dims)
SpreadTuple(min_spread, ndims) ==
    IF min_spread.single THEN [i \in 1..ndims |-> min_spread.values[1]]
    ELSE min_spread.values

\* zip(dims, min_spread): pairs up to the end of the shorter of the two
Zip(dims, spreads) ==
    [i \in 1..Min(Len(dims), Len(spreads)) |-> <<dims[i], spreads[i]>>]

RECURSIVE Chain(_, _, _)
\* for dim, spread in zip(dims, min_spread): skill = find_best_criterion(...)
Chain(ds, pairs, tolerance) ==
    IF pairs = <<>> \/ ds.error THEN ds
    ELSE Chain(ReduceDim(ds, Head(pairs)[1], tolerance, Head(pairs)[2]),
               Tail(pairs), tolerance)

\* if isinstance(dims, str): dims = (dims,)
find_best_criteria(sk, dims, min_spread, tolerance) ==
    LET names   == dims.values
        spreads == SpreadTuple(min_spread, Len(names))
    IN  Chain(AsDataset(sk), Zip(names, spreads), tolerance)

-----------------------------------------------------------------------------
(* find_best_criteria_cv -- optimize.py:106-182 *)

\* The dataset `hits` has the dimension 'id' (stations) and the dimension to
\* optimise: h[id][c] is a cell {TP, FN, FP}.  A fold is the pair of station
\* sets [train, val] that the splitter returned.
CVStations == {1, 2, 3}
CVCells == {[TP |-> 0, FN |-> 0, FP |-> 0], [TP |-> 0, FN |-> 1, FP |-> 0],
            [TP |-> 2, FN |-> 0, FP |-> 1]}

RECURSIVE SumHits(_, _, _)
\* hits.sel(id=ids).sum('id', skipna=False) at coordinate c
SumHits(h, ids, c) ==
    IF ids = {} THEN [TP |-> 0, FN |-> 0, FP |-> 0]
    ELSE LET id   == CHOOSE i \in ids : TRUE
             rest == SumHits(h, ids \ {id}, c)
         IN  [TP |-> h[id][c].TP + rest.TP,
              FN |-> h[id][c].FN + rest.FN,
              FP |-> h[id][c].FP + rest.FP]

RECURSIVE Gcd(_, _)
Gcd(a, b) == IF b = 0 THEN a ELSE Gcd(b, a % b)

\* the same non-negative quotient in lowest terms
Lowest(v) ==
    IF IsNaN(v) THEN v
    ELSE LET g == Gcd(v[1], v[2]) IN <<v[1] \div g, v[2] \div g>>

AddR(v, u) == Lowest(<<v[1] * u[2] + u[1] * v[2], v[2] * u[2]>>)

RECURSIVE SumR(_)
SumR(vs) == IF vs = <<>> THEN <<0, 1>> ELSE AddR(Head(vs), SumR(Tail(vs)))

\* .mean(dim) with skipna: the mean of the defined values, missing when no
\* value is defined
MeanR(vs) ==
    LET ok    == SelectSeq(vs, LAMBDA v : ~IsNaN(v))
        total == SumR(ok)
    IN  IF ok = <<>> THEN NaN ELSE Lowest(<<total[1], total[2] * Len(ok)>>)

\* mutant: the skill of a fold is the mean of the skills of its stations
FoldSkill_meanOfRatios(h, ids, beta) ==
    LET order == SortedSeq(ids)
        one(i, c) == hits2skill(h[order[i]][c], beta)
    IN  [c \in DOMAIN h[1] |->
            [recall    |-> MeanR([i \in 1..Len(order) |-> one(i, c).recall]),
             precision |-> MeanR([i \in 1..Len(order) |-> one(i, c).precision]),
             fbeta     |-> MeanR([i \in 1..Len(order) |-> one(i, c).fbeta])]]

\* hits2skill(hits.sel(id=ids).sum('id', skipna=False), beta=beta)
FoldSkill(h, ids, beta) ==
    [c \in DOMAIN h[1] |-> hits2skill(SumHits(h, ids, c), beta)]

\* dict2da(skill_train, dim='kfold').mean('kfold'), variable by variable
MeanOverFolds(skills) ==
    [c \in DOMAIN skills[1] |->
        [recall    |-> MeanR([i \in DOMAIN skills |-> skills[i][c].recall]),
         precision |-> MeanR([i \in DOMAIN skills |-> skills[i][c].precision]),
         fbeta     |-> MeanR([i \in DOMAIN skills |-> skills[i][c].fbeta])]]

\* find_best_criteria_cv(hits, station_events, dims, ..., beta, tolerance,
\* min_spread) for the folds the splitter returned: (skill_val, skill_criteria)
find_best_criteria_cv(h, folds, dims, beta, tolerance, min_spread) ==
    LET skill_train == [i \in DOMAIN folds |-> FoldSkill(h, folds[i].train, beta)]
        skill_val   == [i \in DOMAIN folds |-> FoldSkill(h, folds[i].val, beta)]
        mean        == MeanOverFolds(skill_train)
    IN  [skill_val      |-> skill_val,
         skill_criteria |-> find_best_criteria(<<<<mean>>>>, dims, min_spread,
                                               tolerance)]

-----------------------------------------------------------------------------
(* State: no call made yet *)

NoHits == [called |-> FALSE, center |-> FALSE, w |-> 0, TP |-> 0, FN |-> 0, FP |-> 0]
NoAttrs == [buffer |-> <<>>, true_positives |-> <<>>]
NoCount == [called |-> FALSE, n |-> 0]

IdleCount == series = <<>> /\ n_events = NoCount
\* the datetime axes of obs and pred: the label of their first timestep
NoAxes == [obs |-> 1, pred |-> 1]
IdleHits ==
    /\ obs = <<>> /\ pred = <<>> /\ hits = NoHits /\ attrs = NoAttrs
    /\ datetime = NoAxes

NoEvents == [called |-> FALSE, upper |-> <<>>, lower |-> <<>>, table |-> <<>>,
             printed |-> {}]
NoStations == [upper |-> {}, lower |-> {}]
IdleEvents ==
    /\ discharge = <<>> /\ events = NoEvents
    /\ stations = NoStations /\ single = NoEvents

NoPrediction == [called |-> FALSE, probability |-> <<>>, persistence |-> <<0, 0>>,
                 leadtime |-> NoLeadtime, events |-> <<>>, error |-> FALSE,
                 labels |-> <<>>, flags |-> <<>>]
IdleExceed ==
    exceedance_da = <<>> /\ predicted = NoPrediction /\ stricter = NoPrediction

NoBest == [called |-> FALSE, tolerance |-> <<0, 1>>, min_spread |-> FALSE,
           error |-> FALSE, rows |-> {}, result |-> <<>>]
NoCriteria == [called |-> FALSE, dims |-> TupleDims(<<>>),
               min_spread |-> BoolSpread(FALSE), tolerance |-> <<0, 1>>,
               result |-> RaisedDataset]
IdleOptim == skill = <<>> /\ best = NoBest /\ criteria = NoCriteria

NoScores == [called |-> FALSE, beta |-> <<0, 1>>, recall |-> NaN, precision |-> NaN,
             fbeta |-> NaN]
IdleSkill == counts = <<>> /\ scores = NoScores

NoCV == [called |-> FALSE, stratify |-> FALSE, random_state |-> 0,
         folds |-> <<>>, min_spread |-> BoolSpread(FALSE),
         skill_val |-> <<>>, skill_criteria |-> RaisedDataset]
IdleCV == station_hits = <<>> /\ cv = NoCV /\ cv_again = NoCV

NoExceedance == [called |-> FALSE, threshold |-> 0, leadtime |-> <<>>,
                 values |-> <<>>]
IdleForecast == forecast = <<>> /\ exc = NoExceedance

NoByArea == [called |-> FALSE, area_ranges |-> <<>>, result |-> <<>>]
IdleArea == station_area = <<>> /\ hits_area = NoByArea

-----------------------------------------------------------------------------
(* Actions *)

\* n_events = count_events(series)
CountEventsCall ==
    /\ series # <<>>
    /\ n_events' = [called |-> TRUE, n |-> count_events(series)]
    /\ UNCHANGED <<stations, single, datetime, forecast, exc, cv_again, station_area, hits_area>>
    /\ UNCHANGED <<stricter, criteria, counts, scores, station_hits, cv>>
    /\ UNCHANGED <<series, obs, pred, hits, attrs, discharge, events, exceedance_da, predicted, skill, best>>

\* hits = events2hits(obs, pred, center, w); the buffered prediction and the
\* true-positive series are left as attributes of the function
Events2HitsCall ==
    \E center \in BOOLEAN, w \in 1..MaxW :
        LET r == events2hits(obs, pred, datetime, center, w)
        IN  /\ obs # <<>>
            /\ hits' = [called |-> TRUE, center |-> center, w |-> w,
                        TP |-> r.TP, FN |-> r.FN, FP |-> r.FP]
            /\ attrs' = [buffer |-> r.buffer, true_positives |-> r.true_positives]
            /\ UNCHANGED <<stations, single, datetime, forecast, exc, cv_again, station_area, hits_area>>
            /\ UNCHANGED <<stricter, criteria, counts, scores, station_hits, cv>>
            /\ UNCHANGED <<series, n_events, obs, pred, discharge, events, exceedance_da, predicted, skill, best>>

\* events = identify_events(discharge, upper_bound, lower_bound), one call on
\* the table
IdentifyEventsCall ==
    /\ discharge # <<>>
    /\ ~events.called
    /\ \E upper \in [stations.upper -> ThresholdValues],
       lowerOpt \in {<<>>} \cup {<<l>> : l \in [stations.lower -> ThresholdValues]} :
        /\ events' = [called |-> TRUE, upper |-> upper, lower |-> lowerOpt,
                      table |-> identify_events(discharge, upper, lowerOpt),
                      printed |-> PrintedErrors(discharge, upper, lowerOpt)]
        /\ UNCHANGED <<stations, single, datetime, forecast, exc, cv_again, station_area, hits_area>>
        /\ UNCHANGED <<stricter, criteria, counts, scores, station_hits, cv>>
        /\ UNCHANGED <<series, n_events, obs, pred, hits, attrs, discharge, exceedance_da, predicted, skill, best>>

\* single = identify_events(discharge, upper_bound): the table and the
\* upper_bound of the two-threshold call just made, without lower_bound
IdentifyEventsSingleCall ==
    /\ events.called
    /\ events.lower # <<>>
    /\ ~single.called
    /\ single' = [called |-> TRUE, upper |-> events.upper, lower |-> <<>>,
                  table |-> identify_events(discharge, events.upper, <<>>),
                  printed |-> PrintedErrors(discharge, events.upper, <<>>)]
    /\ UNCHANGED <<stations, datetime, forecast, exc, cv_again, station_area,
                   hits_area>>
    /\ UNCHANGED <<stricter, criteria, counts, scores, station_hits, cv>>
    /\ UNCHANGED <<series, n_events, obs, pred, hits, attrs, discharge, events,
                   exceedance_da, predicted, skill, best>>

\* increasing lists of two or three breakpoints among 0 and the axis values
BreakpointLists(n) ==
    LET vals == {12 * i : i \in 0..n}
    IN  {SortedSeq(S) : S \in {T \in SUBSET vals : Cardinality(T) \in {2, 3}}}

\* the `leadtime` arguments tried on an axis of n leadtimes
LeadtimeArgs(n) ==
    {NoLeadtime} \cup {IntLeadtime(12 * i) : i \in 0..n}
                 \cup {ListLeadtime(bs) : bs \in BreakpointLists(n)}

\* predicted = exceedance2events(da, probability, persistence, leadtime), one
\* call on the array; with probability=None the array must hold 0/1 only
Exceedance2EventsCall ==
    /\ exceedance_da # <<>>
    /\ ~predicted.called
    /\ \E probOpt \in {<<>>} \cup {<<p>> : p \in ProbabilityThresholds},
          a \in 0..MaxPersistence, b \in 1..MaxPersistence,
          leadtime \in LeadtimeArgs(Len(exceedance_da)) :
        LET r == exceedance2events(exceedance_da, probOpt, <<a, b>>, leadtime)
        IN  /\ probOpt = <<>> => \A i \in 1..Len(exceedance_da) : exceedance_da[i] \in {0, 100}
            /\ predicted' = [called |-> TRUE, probability |-> probOpt,
                             persistence |-> <<a, b>>, leadtime |-> leadtime,
                             events |-> r.events, error |-> r.error,
                             labels |-> r.labels, flags |-> r.flags]
            /\ UNCHANGED <<stations, single, datetime, forecast, exc, cv_again, station_area, hits_area>>
            /\ UNCHANGED <<stricter, criteria, counts, scores, station_hits, cv>>
            /\ UNCHANGED <<series, n_events, obs, pred, hits, attrs,
                           discharge, events, exceedance_da, skill, best>>

\* stricter = exceedance2events(da, probability, (a + 1, b), leadtime): the
\* call just made, repeated with the persistence requirement a raised by one
Exceedance2EventsStricterCall ==
    LET a == predicted.persistence[1] + 1
        b == predicted.persistence[2]
        r == exceedance2events(exceedance_da, predicted.probability, <<a, b>>,
                               predicted.leadtime)
    IN  /\ predicted.called
        /\ ~stricter.called
        /\ stricter' = [called |-> TRUE, probability |-> predicted.probability,
                        persistence |-> <<a, b>>, leadtime |-> predicted.leadtime,
                        events |-> r.events, error |-> r.error,
                        labels |-> r.labels, flags |-> r.flags]
        /\ UNCHANGED <<stations, single, datetime, forecast, exc, cv_again, station_area, hits_area>>
        /\ UNCHANGED <<criteria, counts, scores, station_hits, cv>>
        /\ UNCHANGED <<series, n_events, obs, pred, hits, attrs, discharge,
                       events, exceedance_da, predicted, skill, best>>

\* the sequences of distinct dimension names, in every order
DimsTuples ==
    {q \in UNION {[1..k -> 1..3] : k \in 1..3} :
        \A i, j \in DOMAIN q : i # j => q[i] # q[j]}

\* the `dims` arguments tried: a name, or a tuple of names
DimsArgs ==
    {StrDims(DimNames[k]) : k \in 1..3}
        \cup {TupleDims([i \in DOMAIN q |-> DimNames[q[i]]]) : q \in DimsTuples}

\* the `min_spread` arguments tried: a bool, or a tuple of one to three bools
SpreadArgs ==
    {BoolSpread(b) : b \in BOOLEAN}
        \cup {TupleSpread(bs) : bs \in UNION {[1..k -> BOOLEAN] : k \in 1..3}}

\* criteria = find_best_criteria(skill, dims, metric, tolerance, min_spread),
\* one call on the dataset
FindBestCriteriaCall ==
    /\ skill # <<>>
    /\ ~criteria.called
    /\ \E dims \in DimsArgs, min_spread \in SpreadArgs, tolerance \in ChainTolerances :
        /\ criteria' = [called |-> TRUE, dims |-> dims, min_spread |-> min_spread,
                        tolerance |-> tolerance,
                        result |-> find_best_criteria(skill, dims, min_spread, tolerance)]
        /\ UNCHANGED <<stations, single, datetime, forecast, exc, cv_again, station_area, hits_area>>
        /\ UNCHANGED <<stricter, counts, scores, station_hits, cv>>
        /\ UNCHANGED <<series, n_events, obs, pred, hits, attrs, discharge,
                       events, exceedance_da, predicted, skill, best>>

\* StratifiedShuffleSplit(n_splits=k, train_size): k independent random
\* splits of the stations into a training set of one size and the rest
ShuffleSplits(ids, k) ==
    UNION {[1..k -> {[train |-> t, val |-> ids \ t] :
                        t \in {u \in SUBSET ids : Cardinality(u) = n}}] :
           n \in 1..(Cardinality(ids) - 1)}

\* KFold(n_splits=k, shuffle=True): the validation sets are the k blocks of a
\* random partition of the stations, the first n mod k blocks one larger
KFoldSplits(ids, k) ==
    LET n == Cardinality(ids)
        size(i) == (n \div k) + (IF i <= n % k THEN 1 ELSE 0)
    IN  IF k < 2 \/ k > n THEN {}
        ELSE {f \in [1..k -> {[train |-> ids \ v, val |-> v] : v \in SUBSET ids}] :
                /\ \A i \in 1..k : Cardinality(f[i].val) = size(i)
                /\ \A i, j \in 1..k : i # j => f[i].val \cap f[j].val = {}}

\* (skill_val, skill_criteria) = find_best_criteria_cv(hits, station_events,
\* dims='probability', kfold, train_size, stratify, random_state=0, beta=1,
\* tolerance, min_spread), one call; the folds are those of the random splitter
FindBestCriteriaCVCall ==
    /\ station_hits # <<>>
    /\ ~cv.called
    /\ \E k \in 1..MaxFolds, stratify \in BOOLEAN, spread \in BOOLEAN :
        \E folds \in IF stratify THEN ShuffleSplits(DOMAIN station_hits, k)
                      ELSE KFoldSplits(DOMAIN station_hits, k) :
            LET r == find_best_criteria_cv(station_hits, folds,
                                           StrDims(DimNames[3]), <<1, 1>>,
                                           <<1, 5>>, BoolSpread(spread))
            IN  /\ cv' = [called |-> TRUE, stratify |-> stratify,
                          random_state |-> 0, folds |-> folds,
                          min_spread |-> BoolSpread(spread),
                          skill_val |-> r.skill_val,
                          skill_criteria |-> r.skill_criteria]
                /\ UNCHANGED <<stations, single, datetime, forecast, exc, cv_again, station_area, hits_area>>
                /\ UNCHANGED <<stricter, criteria, counts, scores, station_hits>>
                /\ UNCHANGED <<series, n_events, obs, pred, hits, attrs, discharge,
                               events, exceedance_da, predicted, skill, best>>

\* the seeds of the random splitter
RandomStates == {0, 1}

\* mutant: the splitter draws from a generator shared by all the calls
SplitAgain_unseeded(first, random_state, splits) == splits

\* kfolds.split(...) of a second call with the sizes of the first: a splitter
\* built with an integer random_state seeds a generator of its own, so it
\* returns the folds of the first call when the seed is the same
SplitAgain(first, random_state, splits) ==
    IF random_state = first.random_state THEN {first.folds} ELSE splits

\* cv_again = find_best_criteria_cv(...) once more on the same hits, with the
\* parameters of the first call and a random_state
FindBestCriteriaCVRepeatCall ==
    /\ cv.called
    /\ ~cv_again.called
    /\ \E random_state \in RandomStates :
        \E folds \in SplitAgain(cv, random_state,
                        IF cv.stratify
                        THEN ShuffleSplits(DOMAIN station_hits, Len(cv.folds))
                        ELSE KFoldSplits(DOMAIN station_hits, Len(cv.folds))) :
            LET r == find_best_criteria_cv(station_hits, folds,
                                           StrDims(DimNames[3]), <<1, 1>>,
                                           <<1, 5>>, cv.min_spread)
            IN  /\ cv_again' = [called |-> TRUE, stratify |-> cv.stratify,
                                random_state |-> random_state, folds |-> folds,
                                min_spread |-> cv.min_spread,
                                skill_val |-> r.skill_val,
                                skill_criteria |-> r.skill_criteria]
                /\ UNCHANGED <<stations, single, datetime, forecast, exc,
                               station_area, hits_area>>
                /\ UNCHANGED <<stricter, criteria, counts, scores, station_hits, cv>>
                /\ UNCHANGED <<series, n_events, obs, pred, hits, attrs, discharge,
                               events, exceedance_da, predicted, skill, best>>

\* scores = hits2skill(counts, beta)
Hits2SkillCall ==
    /\ counts # <<>>
    /\ \E beta \in Betas :
        LET r == hits2skill(counts, beta)
        IN  /\ scores' = [called |-> TRUE, beta |-> beta, recall |-> r.recall,
                          precision |-> r.precision, fbeta |-> r.fbeta]
            /\ UNCHANGED <<stations, single, datetime, forecast, exc, cv_again, station_area, hits_area>>
            /\ UNCHANGED <<stricter, criteria, counts, station_hits, cv>>
            /\ UNCHANGED <<series, n_events, obs, pred, hits, attrs, discharge,
                           events, exceedance_da, predicted, skill, best>>

\* best = find_best_criterion(skill, dim, metric, tolerance, min_spread), one
\* call on the dataset
FindBestCriterionCall ==
    /\ skill # <<>>
    /\ ~best.called
    /\ \E tolerance \in Tolerances, min_spread \in BOOLEAN :
        LET r == find_best_criterion(skill, tolerance, min_spread)
        IN  /\ best' = [called |-> TRUE, tolerance |-> tolerance,
                        min_spread |-> min_spread, error |-> r.error,
                        rows |-> r.rows, result |-> r.result]
            /\ UNCHANGED <<stations, single, datetime, forecast, exc, cv_again, station_area, hits_area>>
            /\ UNCHANGED <<stricter, criteria, counts, scores, station_hits, cv>>
            /\ UNCHANGED <<series, n_events, obs, pred, hits, attrs,
                           discharge, events, exceedance_da, predicted, skill>>

\* the discharge thresholds of the station
DischargeThresholds == {1, 3, 5}

\* exc = the exceedance of one file of discharge2exceedance(model_files,
\* thresholds), for one station
Discharge2ExceedanceCall ==
    /\ forecast # <<>>
    /\ \E threshold \in DischargeThresholds :
        LET r == discharge2exceedance(forecast.model, forecast.dis,
                                      forecast.member, threshold)
        IN  /\ exc' = [called |-> TRUE, threshold |-> threshold,
                       leadtime |-> r.leadtime, values |-> r.values]
            /\ UNCHANGED <<stations, single, datetime, forecast, cv_again,
                           station_area, hits_area>>
            /\ UNCHANGED <<stricter, criteria, counts, scores, station_hits, cv>>
            /\ UNCHANGED <<series, n_events, obs, pred, hits, attrs, discharge,
                           events, exceedance_da, predicted, skill, best>>

\* the variables of the dataset hits
HitsVars == {"TP", "FN", "FP"}

\* mutant: the stations of the range [area, area + 1)
stn_area_range(areas, area) == {id \in DOMAIN areas : areas[id] = area}

\* stn_area = station_area.loc[station_area >= area].index
stn_area(areas, area) == {id \in DOMAIN areas : areas[id] >= area}

RECURSIVE SumSkipnaFalse(_, _, _, _)
\* hits[name].sel(id=ids).sum('id', skipna=False) at coordinate c
SumSkipnaFalse(h, ids, c, name) ==
    IF ids = {} THEN 0
    ELSE LET id   == CHOOSE i \in ids : TRUE
             rest == SumSkipnaFalse(h, ids \ {id}, c, name)
         IN  IF h[id][c][name] = Missing \/ rest = Missing THEN Missing
             ELSE h[id][c][name] + rest

\* hits_area[k][c]: the hits of the stations of the k-th value of area_ranges
hits_by_area(h, areas, area_ranges) ==
    [k \in 1..Len(area_ranges) |->
        [c \in DOMAIN h[1] |->
            [name \in HitsVars |->
                SumSkipnaFalse(h, stn_area(areas, area_ranges[k]), c, name)]]]

\* the values of area_ranges
AreaRanges == {2, 3, 4}

\* hits_area = hits_by_area(hits, station_area, area_ranges), area_ranges of
\* one or two different values in any order
HitsByAreaCall ==
    /\ station_area # <<>>
    /\ ~hits_area.called
    /\ \E n \in 1..2 : \E area_ranges \in [1..n -> AreaRanges] :
        /\ \A i, j \in 1..n : area_ranges[i] = area_ranges[j] => i = j
        /\ hits_area' = [called |-> TRUE, area_ranges |-> area_ranges,
                         result |-> hits_by_area(station_hits, station_area,
                                                 area_ranges)]
        /\ UNCHANGED <<stations, single, datetime, forecast, exc, cv_again,
                       station_area>>
        /\ UNCHANGED <<stricter, criteria, counts, scores, station_hits, cv>>
        /\ UNCHANGED <<series, n_events, obs, pred, hits, attrs, discharge,
                       events, exceedance_da, predicted, skill, best>>

-----------------------------------------------------------------------------
(* Specifications *)

InitCount ==
    /\ series \in SeqsUpTo(Bit, MaxLenCount)
    /\ n_events = NoCount
    /\ IdleHits
    /\ IdleEvents
    /\ IdleExceed
    /\ IdleOptim
    /\ IdleSkill
    /\ IdleCV
    /\ IdleForecast
    /\ IdleArea

SpecCount == InitCount /\ [][CountEventsCall]_vars

InitHits ==
    /\ \E n \in 1..MaxT : obs \in [1..n -> Bit] /\ pred \in [1..n -> Bit]
    /\ hits = NoHits
    /\ attrs = NoAttrs
    /\ datetime = NoAxes
    /\ IdleCount
    /\ IdleEvents
    /\ IdleExceed
    /\ IdleOptim
    /\ IdleSkill
    /\ IdleCV
    /\ IdleForecast
    /\ IdleArea

SpecHits == InitHits /\ [][Events2HitsCall]_vars

\* obs and pred on datetime axes of their own that share a label at least;
\* the earlier axis starts at label 1 and both end by label MaxT - 1
InitOverlap ==
    /\ \E a, c \in 1..(MaxT - 1) :
         \E n \in 1..(MaxT - a), k \in 1..(MaxT - c) :
            /\ Min(a, c) = 1
            /\ Labels(a, n) \cap Labels(c, k) # {}
            /\ Labels(a, n) # Labels(c, k)
            /\ datetime = [obs |-> a, pred |-> c]
            /\ obs \in [1..n -> Bit]
            /\ pred \in [1..k -> Bit]
    /\ hits = NoHits
    /\ attrs = NoAttrs
    /\ IdleCount
    /\ IdleEvents
    /\ IdleExceed
    /\ IdleOptim
    /\ IdleSkill
    /\ IdleCV
    /\ IdleForecast
    /\ IdleArea

SpecOverlap == InitOverlap /\ [][Events2HitsCall]_vars

\* a discharge table: the first k stations, the same timesteps for all
InitEvents ==
    /\ \E k \in 1..Cardinality(StationIds) :
         \E n \in 1..(MaxCells \div k) :
            discharge \in [1..k -> [1..n -> DischargeValues]]
    /\ events = NoEvents
    /\ stations = [upper |-> DOMAIN discharge, lower |-> DOMAIN discharge]
    /\ single = NoEvents
    /\ IdleCount
    /\ IdleHits
    /\ IdleExceed
    /\ IdleOptim
    /\ IdleSkill
    /\ IdleCV
    /\ IdleForecast
    /\ IdleArea

NextEvents == IdentifyEventsCall \/ IdentifyEventsSingleCall

SpecEvents == InitEvents /\ [][NextEvents]_vars

\* the station labels a threshold series may be indexed by
ThresholdIndexes == (SUBSET (StationIds \cup {3})) \ {{}}

\* a short discharge table and threshold series indexed by any stations
InitAlign ==
    /\ \E k \in 1..Cardinality(StationIds) :
         \E n \in 1..(MaxAlignCells \div k) :
            discharge \in [1..k -> [1..n -> DischargeValues]]
    /\ stations \in [upper : ThresholdIndexes, lower : ThresholdIndexes]
    /\ events = NoEvents
    /\ single = NoEvents
    /\ IdleCount
    /\ IdleHits
    /\ IdleExceed
    /\ IdleOptim
    /\ IdleSkill
    /\ IdleCV
    /\ IdleForecast
    /\ IdleArea

SpecAlign == InitAlign /\ [][IdentifyEventsCall]_vars

\* an exceedance array along 'leadtime' (one forecast of one station)
InitExceed ==
    /\ exceedance_da \in SeqsUpTo(ExceedanceValues, MaxLeadtimes)
    /\ predicted = NoPrediction
    /\ stricter = NoPrediction
    /\ IdleCount
    /\ IdleHits
    /\ IdleEvents
    /\ IdleOptim
    /\ IdleSkill
    /\ IdleCV
    /\ IdleForecast
    /\ IdleArea

NextExceed == Exceedance2EventsCall \/ Exceedance2EventsStricterCall

SpecExceed == InitExceed /\ [][NextExceed]_vars

\* arrays with missing cells: an exceedance array along 'leadtime', or a
\* prediction along 'datetime' with its observation
InitMissing ==
    /\ \/ /\ exceedance_da \in SeqsUpTo(ExceedanceValues \cup {Missing}, MaxLeadtimes)
          /\ \E i \in DOMAIN exceedance_da : exceedance_da[i] = Missing
          /\ obs = <<>> /\ pred = <<>>
       \/ /\ exceedance_da = <<>>
          /\ \E n \in 1..MaxLeadtimes :
                /\ obs \in [1..n -> Bit]
                /\ pred \in [1..n -> Bit \cup {Missing}]
          /\ \E i \in DOMAIN pred : pred[i] = Missing
    /\ predicted = NoPrediction
    /\ stricter = NoPrediction
    /\ hits = NoHits
    /\ attrs = NoAttrs
    /\ datetime = NoAxes
    /\ IdleCount
    /\ IdleEvents
    /\ IdleOptim
    /\ IdleSkill
    /\ IdleCV
    /\ IdleForecast
    /\ IdleArea

NextMissing == Exceedance2EventsCall \/ Events2HitsCall

SpecMissing == InitMissing /\ [][NextMissing]_vars

\* a skill dataset computed by hits2skill (beta = 1) from a dataset of hits
\* with nx x ny x nd cells
InitOptim ==
    /\ \E nx \in 1..2 : \E ny \in 1..nx : \E nd \in 1..(MaxGridCells \div (nx * ny)) :
         \E h \in [1..nx -> [1..ny -> [1..nd -> HitsCells]]] :
            skill = [x \in 1..nx |-> [y \in 1..ny |-> [c \in 1..nd |->
                        hits2skill(h[x][y][c], <<1, 1>>)]]]
    /\ best = NoBest
    /\ criteria = NoCriteria
    /\ IdleCount
    /\ IdleHits
    /\ IdleEvents
    /\ IdleExceed
    /\ IdleSkill
    /\ IdleCV
    /\ IdleForecast
    /\ IdleArea

SpecOptim == InitOptim /\ [][FindBestCriterionCall]_vars

\* a skill dataset (beta = 1) for a chain of reductions: at most two labels
\* along every dimension
InitCriteria ==
    /\ \E nx \in 1..2 : \E ny \in 1..2 : \E nd \in 1..Min(2, MaxGridCells \div (nx * ny)) :
         \E h \in [1..nx -> [1..ny -> [1..nd -> ChainCells]]] :
            skill = [x \in 1..nx |-> [y \in 1..ny |-> [c \in 1..nd |->
                        hits2skill(h[x][y][c], <<1, 1>>)]]]
    /\ best = NoBest
    /\ criteria = NoCriteria
    /\ IdleCount
    /\ IdleHits
    /\ IdleEvents
    /\ IdleExceed
    /\ IdleSkill
    /\ IdleCV
    /\ IdleForecast
    /\ IdleArea

SpecCriteria == InitCriteria /\ [][FindBestCriteriaCall]_vars

\* a skill dataset (beta = 1) without missing values, at most two labels
\* along every dimension
InitBound ==
    /\ \E nx \in 1..2 : \E ny \in 1..2 : \E nd \in 1..Min(2, MaxGridCells \div (nx * ny)) :
         \E h \in [1..nx -> [1..ny -> [1..nd -> BoundCells]]] :
            skill = [x \in 1..nx |-> [y \in 1..ny |-> [c \in 1..nd |->
                        hits2skill(h[x][y][c], <<1, 1>>)]]]
    /\ best = NoBest
    /\ criteria = NoCriteria
    /\ IdleCount
    /\ IdleHits
    /\ IdleEvents
    /\ IdleExceed
    /\ IdleSkill
    /\ IdleCV
    /\ IdleForecast
    /\ IdleArea

SpecBound == InitBound /\ [][FindBestCriteriaCall]_vars

\* the hits of two or three stations along the dimension to optimise
InitCV ==
    /\ \E ns \in 2..Cardinality(CVStations) : \E nd \in 1..(MaxCVCells \div ns) :
         station_hits \in [1..ns -> [1..nd -> CVCells]]
    /\ cv = NoCV
    /\ cv_again = NoCV
    /\ IdleCount
    /\ IdleHits
    /\ IdleEvents
    /\ IdleExceed
    /\ IdleOptim
    /\ IdleSkill
    /\ IdleForecast
    /\ IdleArea

SpecCV == InitCV /\ [][FindBestCriteriaCVCall]_vars

\* the hits of two stations with one or two coordinates along the dimension
\* to optimise, for a call and its repetition
InitRepeat ==
    /\ \E nd \in 1..Min(2, MaxCVCells \div 2) :
         station_hits \in [1..2 -> [1..nd -> CVCells]]
    /\ cv = NoCV
    /\ cv_again = NoCV
    /\ IdleCount
    /\ IdleHits
    /\ IdleEvents
    /\ IdleExceed
    /\ IdleOptim
    /\ IdleSkill
    /\ IdleForecast
    /\ IdleArea

NextRepeat == FindBestCriteriaCVCall \/ FindBestCriteriaCVRepeatCall

SpecRepeat == InitRepeat /\ [][NextRepeat]_vars

\* the discharge of a forecast file with n steps: step t - 1 and member mm
\* hold (p * t + q * mm) mod 7
FileDischarge(n, members, p, q) ==
    [t \in 1..n |-> [mm \in 1..members |-> (p * t + q * mm) % 7]]

\* one forecast file of one model: with a member axis of 1..MaxMembers
\* members, or without (one value per step)
InitForecast ==
    /\ \E model \in DOMAIN models, n \in 1..MaxSteps, member \in BOOLEAN,
          p \in 1..3, q \in 0..2 :
         \E members \in 1..(IF member THEN MaxMembers ELSE 1) :
            forecast = [model |-> model, member |-> member,
                        dis |-> FileDischarge(n, members, p, q)]
    /\ exc = NoExceedance
    /\ IdleCount
    /\ IdleHits
    /\ IdleEvents
    /\ IdleExceed
    /\ IdleOptim
    /\ IdleSkill
    /\ IdleCV
    /\ IdleArea

SpecForecast == InitForecast /\ [][Discharge2ExceedanceCall]_vars

\* the hits of one cell of a station, with or without missing values
AreaCells == {[TP |-> 1, FN |-> 0, FP |-> 2], [TP |-> 0, FN |-> 1, FP |-> 0],
              [TP |-> 2, FN |-> Missing, FP |-> Missing]}

\* the catchment areas of the stations
StationAreas == {1, 2, 3}

\* the hits of ns stations with nd coordinates along the other dimension, and
\* the catchment area of each of those stations
InitArea ==
    /\ \E ns \in 1..MaxAreaCells : \E nd \in 1..Min(2, MaxAreaCells \div ns) :
        /\ station_hits \in [1..ns -> [1..nd -> AreaCells]]
        /\ station_area \in [1..ns -> StationAreas]
    /\ hits_area = NoByArea
    /\ cv = NoCV
    /\ cv_again = NoCV
    /\ IdleCount
    /\ IdleHits
    /\ IdleEvents
    /\ IdleExceed
    /\ IdleOptim
    /\ IdleSkill
    /\ IdleForecast

SpecArea == InitArea /\ [][HitsByAreaCall]_vars

\* one cell of a dataset of hits
InitSkill ==
    /\ counts \in [TP : 0..MaxHits, FN : 0..MaxHits, FP : 0..MaxHits]
    /\ scores = NoScores
    /\ IdleCount
    /\ IdleHits
    /\ IdleEvents
    /\ IdleExceed
    /\ IdleOptim
    /\ IdleCV
    /\ IdleForecast
    /\ IdleArea

SpecSkill == InitSkill /\ [][Hits2SkillCall]_vars

-----------------------------------------------------------------------------
(* Properties of count_events and events2hits *)

\* the start positions of the observed events (maximal runs of 1) that hold at
\* least one cell of the buffered prediction
HitObservedEvents(o, buff) ==
    {i \in 1..Len(o) :
        /\ o[i] = 1 /\ (i = 1 \/ o[i-1] = 0)
        /\ \E j \in i..Len(o) :
              /\ \A k \in i..j : o[k] = 1
              /\ buff[j] = 1}

\* C1: whatever obs, pred, w and the centering, 0 <= TP <= n_obs,
\* FN = n_obs - TP >= 0, FP >= 0 and TP + FN = n_obs, n_obs being the number
\* of rising edges of obs.
C1_HitsBounds ==
    hits.called =>
        LET nObs == RisingEdges(obs)
        IN  /\ 0 <= hits.TP /\ hits.TP <= nObs
            /\ hits.FN = nObs - hits.TP /\ hits.FN >= 0
            /\ hits.FP >= 0
            /\ hits.TP + hits.FN = nObs

\* C1 witness: more predicted than observed events, and the masked series
\* has more onsets than there are observed events (the cap acts).
C1_Witness ==
    /\ hits.called
    /\ RisingEdges(pred) >= RisingEdges(obs) + 2
    /\ RisingEdges(attrs.true_positives) > RisingEdges(obs)
    /\ hits.TP = RisingEdges(obs)

\* C4: count_events returns the number of maximal runs of 1 of the series.
C4_CountsRuns == n_events.called => n_events.n = RisingEdges(series)

\* C4 witness: the series [0,1,1,0,1,0,0,1,1,1] has been counted as 3 events.
C4_Witness ==
    /\ series = <<0, 1, 1, 0, 1, 0, 0, 1, 1, 1>>
    /\ n_events.called
    /\ n_events.n = 3

\* C6: TP never exceeds the number of distinct observed events that coincide
\* with at least one cell of the buffered prediction (an observed event is hit
\* at most once).
C6_HitAtMostOnce ==
    hits.called =>
        hits.TP <= Cardinality(HitObservedEvents(obs, attrs.buffer))

\* C7: FP = max(0, n_pred - TP) with n_pred the number of rising edges of the
\* buffered prediction; FP = 0 when TP >= n_pred, TP + FP = n_pred otherwise.
C7_FalsePositives ==
    hits.called =>
        LET nPred == RisingEdges(attrs.buffer)
        IN  /\ hits.FP = Max(0, nPred - hits.TP)
            /\ (hits.TP >= nPred => hits.FP = 0)
            /\ (hits.TP < nPred => hits.TP + hits.FP = nPred)

\* C7 witness: buffering merged raw predicted events (fewer rising edges in
\* the buffer than in the raw prediction) and false positives are left.
C7_Witness ==
    /\ hits.called
    /\ RisingEdges(attrs.buffer) < RisingEdges(pred)
    /\ hits.TP < RisingEdges(attrs.buffer)
    /\ hits.FP > 0

\* the timesteps of the window of timestep i as the claim describes it:
\* centered on i (at most w \div 2 timesteps away), or the w timesteps ending
\* at i when trailing
ClaimedWindow(i, center, w) ==
    IF center THEN (i - (w \div 2)) .. (i + (w \div 2)) ELSE (i - w + 1) .. i

\* C14: for every w >= 1 and both centering modes the buffered prediction has
\* the length of the prediction, every timestep that is 1 in the prediction
\* (the first and the last included) is 1 in the buffer, and a timestep of the
\* buffer is 1 only if some timestep of the prediction in its window is 1.
C14_BufferOnlyWidens ==
    hits.called =>
        /\ Len(attrs.buffer) = Len(pred)
        /\ \A i \in 1..Len(pred) :
            /\ pred[i] = 1 => attrs.buffer[i] = 1
            /\ attrs.buffer[i] = 1 =>
                 \E j \in ClaimedWindow(i, hits.center, hits.w) \cap (1..Len(pred)) :
                     pred[j] = 1

-----------------------------------------------------------------------------
(* Properties of identify_events *)

\* discharge crosses upward through the bound at timestep t
CrossesUp(q, bound, t) == t > 1 /\ q[t] > bound /\ q[t-1] <= bound

\* the onsets marked before timestep t in a column of the output
MarkedBefore(col, t) == {u \in 1..(t-1) : col[u]}

\* the latest onset marked before timestep t (there is one)
LastMarkedBefore(col, t) ==
    CHOOSE u \in MarkedBefore(col, t) : \A v \in MarkedBefore(col, t) : v <= u

\* C2: in two-threshold mode with lower <= upper, a timestep is an onset iff
\* discharge crosses upward through upper there and it is the first crossing
\* of the series or discharge was <= lower strictly between the previously
\* marked onset and it; so two consecutive onsets always have a timestep with
\* discharge <= lower strictly between them.
C2_Hysteresis ==
    (events.called /\ events.lower # <<>>) =>
        \A stn \in DOMAIN events.table :
            LET q     == discharge[stn]
                up    == events.upper[stn]
                low   == events.lower[1][stn]
                col   == events.table[stn]
            IN  low <= up =>
                  /\ Len(col) = Len(q)
                  /\ \A t \in 1..Len(q) :
                        col[t] <=>
                          /\ CrossesUp(q, up, t)
                          /\ \/ \A u \in 1..(t-1) : ~CrossesUp(q, up, u)
                             \/ /\ MarkedBefore(col, t) # {}
                                /\ \E u \in (LastMarkedBefore(col, t) + 1)..(t - 1) :
                                      q[u] <= low
                  /\ \A t1, t2 \in 1..Len(q) :
                        (t1 < t2 /\ col[t1] /\ col[t2]) =>
                            \E u \in (t1 + 1)..(t2 - 1) : q[u] <= low

\* C2 witness: discharge [3,6,6,6,2,6] with upper 5 and lower 3 got onsets
\* exactly at the second and the sixth timestep (indices 1 and 5 from 0).
C2_Witness ==
    /\ events.called /\ events.lower # <<>>
    /\ DOMAIN discharge = {1}
    /\ discharge[1] = <<3, 6, 6, 6, 2, 6>>
    /\ events.upper[1] = 5 /\ events.lower[1][1] = 3
    /\ events.table[1] = <<FALSE, TRUE, FALSE, FALSE, FALSE, TRUE>>

\* C3: with lower_bound absent, timestep t of a station is marked iff it is
\* not the first timestep, discharge[t] > upper and discharge[t-1] <= upper;
\* a station without such a crossing gets an all-False column; the output has
\* one row per timestep and one column per station.
C3_SingleThreshold ==
    (events.called /\ events.lower = <<>>) =>
        /\ DOMAIN events.table = DOMAIN discharge
        /\ \A stn \in DOMAIN events.table :
            LET q   == discharge[stn]
                up  == events.upper[stn]
                col == events.table[stn]
            IN  /\ Len(col) = Len(q)
                /\ \A t \in 1..Len(q) : col[t] <=> CrossesUp(q, up, t)
                /\ (\A t \in 1..Len(q) : ~CrossesUp(q, up, t)) =>
                        \A t \in 1..Len(q) : col[t] = FALSE

\* C3 witness: two stations, one that exceeds its bound from the first
\* timestep on and has an all-False column, one with a marked crossing.
C3_Witness ==
    /\ events.called /\ events.lower = <<>>
    /\ DOMAIN discharge = {1, 2}
    /\ \A t \in 1..Len(discharge[1]) : discharge[1][t] > events.upper[1]
    /\ \A t \in 1..Len(events.table[1]) : ~events.table[1][t]
    /\ \E t \in 1..Len(events.table[2]) : events.table[2][t]

-----------------------------------------------------------------------------
(* Properties of exceedance2events *)

\* the exceedance at position i of the original axis is positive
PositiveAt(i) ==
    IF predicted.probability = <<>> THEN exceedance_da[i] = 100
    ELSE exceedance_da[i] >= predicted.probability[1]

\* C5: before the leadtime aggregation, the cell at leadtime L is a positive
\* prediction iff the exceedance at L is positive and at least a of the
\* exceedances at L and the b-1 next longer leadtimes present on the axis are
\* positive; the window holds no shorter leadtime and the axis keeps its order.
C5_Persistence ==
    predicted.called =>
        LET a  == predicted.persistence[1]
            b  == predicted.persistence[2]
            ev == predicted.events
            n  == Len(exceedance_da)
        IN  /\ Len(ev) = n
            /\ \A i \in 1..n :
                /\ ev[i] \in {0, 1}
                /\ ev[i] = 1 <=>
                     /\ PositiveAt(i)
                     /\ Cardinality({j \in i..Min(n, i + b - 1) : PositiveAt(j)}) >= a

\* C5 witness: with persistence (2, 2) the shortest leadtime is predicted, the
\* middle one is not although it is positive and the shorter one is too (its
\* window only holds the longer, negative leadtime).
C5_Witness ==
    /\ predicted.called
    /\ predicted.persistence = <<2, 2>>
    /\ Len(exceedance_da) = 3
    /\ PositiveAt(1) /\ PositiveAt(2) /\ ~PositiveAt(3)
    /\ predicted.events = <<1, 0, 0>>

\* the cell at position i of the original axis is a positive prediction: its
\* exceedance is positive and so are at least a of the exceedances at it and
\* the b-1 next longer leadtimes
PredictedAt(i) ==
    LET a == predicted.persistence[1]
        b == predicted.persistence[2]
        n == Len(exceedance_da)
    IN  /\ PositiveAt(i)
        /\ Cardinality({j \in i..Min(n, i + b - 1) : PositiveAt(j)}) >= a

\* the leadtime (hours) at position i of the axis of the input
LeadtimeOf(i) == LeadtimeAxis(Len(exceedance_da))[i]

C12_IntegerLeadtime ==
    (predicted.called /\ predicted.leadtime.kind = "int") =>
        LET n == Len(exceedance_da)
            L == predicted.leadtime.breaks[1]
            all == exceedance2events(exceedance_da, predicted.probability,
                                     predicted.persistence, NoLeadtime)
        IN  \A i \in 1..n :
                LeadtimeOf(i) = L =>
                    /\ ~predicted.error
                    /\ Len(predicted.flags) = 1
                    /\ predicted.flags[1] = 1 <=>
                          \E j \in 1..n : LeadtimeOf(j) >= L /\ PredictedAt(j)
                    /\ predicted.flags[1] = all.flags[i]

\* the positions of the axis that the call put in bin k: the leadtimes of the
\* half-open or closed interval the code selects are recovered from the label
\* (the minimum of the bin) and the next breakpoint
BinOf(k) ==
    LET bs == predicted.leadtime.breaks
        n  == Len(exceedance_da)
    IN  {i \in 1..n :
            /\ LeadtimeOf(i) >= predicted.labels[k]
            /\ (k < Len(bs) => LeadtimeOf(i) <= bs[k+1])}

\* C13: with a list of increasing breakpoints the bins partition the axis
\* from the first breakpoint on: they are pairwise disjoint, every leadtime
\* >= the first breakpoint is in exactly one bin, there is one flag per
\* breakpoint, each flag is the OR of the positive predictions of its bin and
\* is labelled with the minimum leadtime of the bin.  Stated for the lists
\* whose breakpoints are all values of the axis (no bin can then be empty).
C13_BreakpointBins ==
    (/\ predicted.called /\ predicted.leadtime.kind = "list"
     /\ \A k \in 1..Len(predicted.leadtime.breaks) :
           \E i \in 1..Len(exceedance_da) :
               LeadtimeOf(i) = predicted.leadtime.breaks[k]) =>
        LET n  == Len(exceedance_da)
            bs == predicted.leadtime.breaks
            K  == Len(bs)
        IN  /\ ~predicted.error
            /\ Len(predicted.flags) = K
            /\ Len(predicted.labels) = K
            /\ \A k1, k2 \in 1..K : k1 # k2 => BinOf(k1) \cap BinOf(k2) = {}
            /\ \A i \in 1..n :
                  LeadtimeOf(i) >= bs[1] =>
                      Cardinality({k \in 1..K : i \in BinOf(k)}) = 1
            /\ \A k \in 1..K :
                  /\ BinOf(k) # {}
                  /\ \A i \in BinOf(k) : predicted.labels[k] <= LeadtimeOf(i)
                  /\ \E i \in BinOf(k) : predicted.labels[k] = LeadtimeOf(i)
                  /\ predicted.flags[k] = 1 <=> \E i \in BinOf(k) : PredictedAt(i)

\* C15: for the same array, probability, window b and leadtime mode, the
\* positive cells returned with persistence (a + 1, b) are positive cells of
\* the result with (a, b): raising a never adds a predicted positive.
C15_PersistenceMonotone ==
    stricter.called =>
        /\ stricter.persistence[1] = predicted.persistence[1] + 1
        /\ stricter.persistence[2] = predicted.persistence[2]
        /\ stricter.error = predicted.error
        /\ stricter.labels = predicted.labels
        /\ Len(stricter.flags) = Len(predicted.flags)
        /\ \A k \in 1..Len(stricter.flags) :
              stricter.flags[k] = 1 => predicted.flags[k] = 1
        /\ \A i \in 1..Len(stricter.events) :
              stricter.events[i] = 1 => predicted.events[i] = 1

\* C15 witness: raising a removed a positive flag and kept another one.
C15_Witness ==
    /\ stricter.called /\ ~stricter.error
    /\ \E k \in 1..Len(stricter.flags) :
          predicted.flags[k] = 1 /\ stricter.flags[k] = 0
    /\ \E k \in 1..Len(stricter.flags) :
          predicted.flags[k] = 1 /\ stricter.flags[k] = 1

\* the configuration of the call is invalid: a persistence pair without
\* 1 <= a <= b, or a probability outside [0, 1] (percent: outside 0..100)
InvalidCriteria ==
    \/ predicted.persistence[1] < 1
    \/ predicted.persistence[1] > predicted.persistence[2]
    \/ /\ predicted.probability # <<>>
       /\ (predicted.probability[1] < 0 \/ predicted.probability[1] > 100)

\* C20: a call with an invalid configuration is rejected with an error and
\* returns no result: exceedance2events with a persistence pair a > b or
\* a < 1 or with a probability outside [0, 1], find_best_criterion with a
\* negative tolerance.
C20_InvalidRejected ==
    /\ (predicted.called /\ InvalidCriteria) =>
            predicted.error /\ predicted.flags = <<>>
    /\ (best.called /\ best.tolerance[1] < 0) =>
            best.error /\ best.rows = {}

-----------------------------------------------------------------------------
(* Properties of find_best_criterion *)

\* the slices of the dataset along `dim`
Slices == XS(skill) \X YS(skill)

\* coordinate c of slice r is within the tolerance of the maximum of the
\* metric along dim: no defined metric of the slice exceeds it by the
\* tolerance or more
InBand(r, c) ==
    LET m(k) == skill[r[1]][r[2]][k].fbeta
    IN  /\ ~IsNaN(m(c))
        /\ \A k \in CS(skill) :
              ~IsNaN(m(k)) => LtR(SubR(m(k), m(c)), best.tolerance)

\* |recall - precision| at coordinate c of slice r
Gap(r, c) ==
    LET cell == skill[r[1]][r[2]][c]
    IN  AbsR(SubR(cell.recall, cell.precision))

\* the candidates of slice r whose recall/precision gap is defined
GapCandidates(r) == {c \in CS(skill) : InBand(r, c) /\ ~IsNaN(Gap(r, c))}

\* two skill values are the same value (or both missing)
SameValue(v, u) ==
    IF IsNaN(v) \/ IsNaN(u) THEN IsNaN(v) /\ IsNaN(u) ELSE EqR(v, u)

\* C8: with min_spread=True the selected coordinate is within the tolerance
\* of the maximum metric along dim and has the smallest |recall - precision|
\* among all the coordinates within the tolerance (those with a defined gap),
\* whether or not it is the argmax of the metric.
C8_MinSpreadSelection ==
    (best.called /\ best.min_spread) =>
        \A r \in Slices :
            GapCandidates(r) # {} =>
                /\ ~best.error
                /\ r \in best.rows
                /\ best.result[r].dim \in GapCandidates(r)
                /\ \A c \in GapCandidates(r) :
                      ~LtR(Gap(r, c), Gap(r, best.result[r].dim))

\* C8 witness: the selected coordinate is not an argmax of the metric (a
\* coordinate of the slice has a strictly larger metric) and an argmax of the
\* slice has a strictly larger gap.
C8_Witness ==
    /\ best.called /\ best.min_spread /\ ~best.error
    /\ \E r \in best.rows :
          LET sel == best.result[r].dim
              m(k) == skill[r[1]][r[2]][k].fbeta
          IN  /\ sel # 0
              /\ \E k \in GapCandidates(r) :
                    /\ LtR(m(sel), m(k))
                    /\ LtR(Gap(r, sel), Gap(r, k))

\* C17: with min_spread=False the coordinate selected for a slice is the
\* first one in axis order (the smallest) among the coordinates whose metric is
\* within the tolerance of the maximum, and the skill returned is the skill at
\* that coordinate.
C17_FirstCandidate ==
    (best.called /\ ~best.min_spread) =>
        \A r \in Slices :
            (\E c \in CS(skill) : InBand(r, c)) =>
                /\ ~best.error
                /\ r \in best.rows
                /\ LET sel  == best.result[r].dim
                       cell == skill[r[1]][r[2]][sel]
                   IN  /\ sel \in CS(skill)
                       /\ InBand(r, sel)
                       /\ \A c \in CS(skill) : InBand(r, c) => sel <= c
                       /\ SameValue(best.result[r].recall, cell.recall)
                       /\ SameValue(best.result[r].precision, cell.precision)
                       /\ SameValue(best.result[r].fbeta, cell.fbeta)

\* C17 witness: the selected coordinate is not the first of the axis (the
\* first is outside the tolerance) and a later candidate has a strictly
\* larger metric than the selected one.
C17_Witness ==
    /\ best.called /\ ~best.min_spread /\ ~best.error
    /\ \E r \in best.rows :
          LET sel == best.result[r].dim
              m(k) == skill[r[1]][r[2]][k].fbeta
          IN  /\ sel > 1
              /\ InBand(r, sel)
              /\ ~InBand(r, 1)
              /\ \E k \in CS(skill) : k > sel /\ InBand(r, k) /\ LtR(m(sel), m(k))

\* C9: the recall, precision and metric returned for a slice are the values
\* of the input skill at the coordinate reported as selected for that slice.
C9_SkillAtSelected ==
    (best.called /\ ~best.error) =>
        \A r \in best.rows :
            LET out == best.result[r]
            IN  out.dim # 0 =>
                  LET cell == skill[r[1]][r[2]][out.dim]
                  IN  /\ SameValue(out.recall, cell.recall)
                      /\ SameValue(out.precision, cell.precision)
                      /\ SameValue(out.fbeta, cell.fbeta)

\* C10: when no coordinate of a slice is within the tolerance (metric missing
\* along dim, or tolerance too small), the call raises, or at least no
\* coordinate value is returned for that slice.
C10_EmptyCandidates ==
    best.called =>
        \A r \in Slices :
            (\A c \in CS(skill) : ~InBand(r, c)) =>
                \/ best.error
                \/ r \notin best.rows
                \/ best.result[r].dim = 0

-----------------------------------------------------------------------------
(* Properties of hits2skill *)

\* the value v is the quotient n / d: missing exactly when d is 0, never 0
\* in that case, and otherwise equal to n / d and within [0, 1]
IsQuotient(v, n, d) ==
    IF d = 0 THEN IsNaN(v)
    ELSE /\ ~IsNaN(v)
         /\ v[1] * d = n * v[2]
         /\ 0 <= v[1] * v[2] /\ v[1] * v[2] <= v[2] * v[2]

\* C16: for non-negative integer TP, FN, FP and beta > 0, recall is
\* TP / (TP + FN), precision TP / (TP + FP) and f-beta
\* (1 + beta^2) TP / ((1 + beta^2) TP + beta^2 FN + FP); each is missing
\* exactly when its denominator is 0 and lies in [0, 1] otherwise; hits
\* (5, 0, 0) give 1, 1, 1 and hits (0, 3, 2) give 0, 0, 0.
C16_SkillValues ==
    scores.called =>
        LET TP == counts.TP
            FN == counts.FN
            FP == counts.FP
            p2 == scores.beta[1] * scores.beta[1]
            q2 == scores.beta[2] * scores.beta[2]
        IN  /\ IsQuotient(scores.recall, TP, TP + FN)
            /\ IsQuotient(scores.precision, TP, TP + FP)
            \* beta^2 = p2 / q2: the quotient scaled by q2
            /\ IsQuotient(scores.fbeta, (q2 + p2) * TP,
                                        (q2 + p2) * TP + p2 * FN + q2 * FP)
            /\ (TP = 5 /\ FN = 0 /\ FP = 0) =>
                    /\ scores.recall[1] = scores.recall[2]
                    /\ scores.precision[1] = scores.precision[2]
                    /\ scores.fbeta[1] = scores.fbeta[2]
            /\ (TP = 0 /\ FN = 3 /\ FP = 2) =>
                    /\ scores.recall[1] = 0 /\ scores.recall[2] # 0
                    /\ scores.precision[1] = 0 /\ scores.precision[2] # 0
                    /\ scores.fbeta[1] = 0 /\ scores.fbeta[2] # 0

\* C16 witness: hits without observed event but with false alarms: recall is
\* missing while precision and f-beta are 0.
C16_Witness ==
    /\ scores.called
    /\ counts.TP = 0 /\ counts.FN = 0 /\ counts.FP > 0
    /\ IsNaN(scores.recall)
    /\ ~IsNaN(scores.precision) /\ scores.precision[1] = 0
    /\ ~IsNaN(scores.fbeta) /\ scores.fbeta[1] = 0

-----------------------------------------------------------------------------
(* Properties of find_best_criteria *)

\* the number of labels of the dimension `name` in the input dataset
InputSize(name) ==
    IF name = DimNames[1] THEN Cardinality(XS(skill))
    ELSE IF name = DimNames[2] THEN Cardinality(YS(skill))
    ELSE Cardinality(CS(skill))

\* C18: for every length of dims and every form of min_spread (a bool or a
\* tuple), a call that returns has applied one reduction per name of dims,
\* in the order given: no name of dims is a dimension of the returned dataset
\* and each is a variable that holds a coordinate of that dimension (or a
\* missing value).
C18_ChainReducesAll ==
    (criteria.called /\ ~criteria.result.error) =>
        LET names == criteria.dims.values
            out   == criteria.result
        IN  /\ out.vars = names
            /\ \A i \in 1..Len(names) :
                  /\ \A k \in 1..3 : out.names[k] # names[i]
                  /\ \A a \in DOMAIN out.grid :
                        \A b \in DOMAIN out.grid[a] :
                          \A c \in DOMAIN out.grid[a][b] :
                            /\ Len(out.grid[a][b][c].sel) = Len(names)
                            /\ out.grid[a][b][c].sel[i] \in 0..InputSize(names[i])

-----------------------------------------------------------------------------
(* Properties of find_best_criteria_cv *)

\* TP, FN and FP added up over the stations of S at coordinate c
HitsOf(S, c) ==
    LET part(id) == IF id \in S THEN station_hits[id][c]
                    ELSE [TP |-> 0, FN |-> 0, FP |-> 0]
    IN  [TP |-> part(1).TP + part(2).TP + part(3).TP,
         FN |-> part(1).FN + part(2).FN + part(3).FN,
         FP |-> part(1).FP + part(2).FP + part(3).FP]

\* the skill (beta = 1) of the hits added up over the stations of S
RatioOfSums(S, c) ==
    LET t == HitsOf(S, c)
    IN  [recall    |-> <<t.TP, t.TP + t.FN>>,
         precision |-> <<t.TP, t.TP + t.FP>>,
         fbeta     |-> <<2 * t.TP, 2 * t.TP + t.FN + t.FP>>]

\* the average over the folds of the skill of the training stations, each
\* fold's skill being a ratio of sums (a fold without a defined value does not
\* enter the average)
FoldAverage(c) ==
    LET one(i) == RatioOfSums(cv.folds[i].train, c)
        K      == DOMAIN cv.folds
    IN  [recall    |-> MeanR([i \in K |-> one(i).recall]),
         precision |-> MeanR([i \in K |-> one(i).precision]),
         fbeta     |-> MeanR([i \in K |-> one(i).fbeta])]

SameSkill(a, b) ==
    /\ SameValue(a.recall, b.recall)
    /\ SameValue(a.precision, b.precision)
    /\ SameValue(a.fbeta, b.fbeta)

\* C19: the validation skill of every fold is the skill of the hits summed
\* over the held-out stations of the fold, and the criteria returned are the
\* tolerance/tie-break selection run on the average over the folds of the
\* training skills, each computed from the hits summed over the training
\* stations of the fold (a ratio of sums, not a mean of station ratios).
C19_RatioOfSums ==
    cv.called =>
        LET C     == DOMAIN station_hits[1]
            K     == DOMAIN cv.folds
            avg   == [c \in C |-> FoldAverage(c)]
            want  == find_best_criteria(<<<<avg>>>>, StrDims(DimNames[3]),
                                        cv.min_spread, <<1, 5>>)
            got   == cv.skill_criteria
        IN  /\ DOMAIN cv.skill_val = K
            /\ \A i \in K : \A c \in C :
                  SameSkill(cv.skill_val[i][c], RatioOfSums(cv.folds[i].val, c))
            /\ got.error = want.error
            /\ ~got.error =>
                  /\ got.vars = <<DimNames[3]>>
                  /\ got.grid[1][1][1].sel = want.grid[1][1][1].sel
                  /\ SameSkill(got.grid[1][1][1], want.grid[1][1][1])

\* C19 witness: two folds; in one the held-out stations are a station with
\* recall 1 and a station with recall 0 whose summed hits give recall 2/3
\* (the mean of the two recalls is 1/2), and a criterion has been selected.
C19_Witness ==
    /\ cv.called /\ ~cv.skill_criteria.error
    /\ Len(cv.folds) = 2
    /\ cv.folds[1].train # cv.folds[2].train
    /\ \E i \in DOMAIN cv.folds : \E c \in DOMAIN station_hits[1] :
          /\ Cardinality(cv.folds[i].val) = 2
          /\ \E s1, s2 \in cv.folds[i].val :
                /\ station_hits[s1][c] = [TP |-> 2, FN |-> 0, FP |-> 1]
                /\ station_hits[s2][c] = [TP |-> 0, FN |-> 1, FP |-> 0]
          /\ EqR(cv.skill_val[i][c].recall, <<2, 3>>)
    /\ cv.skill_criteria.grid[1][1][1].sel[1] # 0

-----------------------------------------------------------------------------
(* Properties of the alignment of identify_events *)

\* C21: when the stations of the discharge columns and of upper_bound (or of
\* lower_bound) are not the same set, the call prints the error line naming
\* that bound, and still returns the events of the common stations
C21_MismatchReported ==
    events.called =>
        /\ DOMAIN discharge # DOMAIN events.upper => "upper_bound" \in events.printed
        /\ (events.lower # <<>> /\ DOMAIN discharge # DOMAIN events.lower[1])
                => "lower_bound" \in events.printed
        /\ DOMAIN events.table =
                IF events.lower = <<>>
                THEN DOMAIN discharge \cap DOMAIN events.upper
                ELSE DOMAIN discharge \cap DOMAIN events.upper
                        \cap DOMAIN events.lower[1]

-----------------------------------------------------------------------------
(* Properties of missing cells *)

\* C22: a missing exceedance cell is never turned into a 0: the events of
\* exceedance2events are not 0 at a missing input cell, and the buffer of
\* events2hits is not 0 at a timestep whose whole window is missing in pred
C22_MissingNotZero ==
    /\ predicted.called =>
            \A i \in DOMAIN exceedance_da :
                exceedance_da[i] = Missing => predicted.events[i] # 0
    /\ hits.called =>
            \A i \in DOMAIN pred :
                (\A j \in Window(i, hits.center, hits.w) \cap DOMAIN pred :
                    pred[j] = Missing)
                => attrs.buffer[i] # 0

-----------------------------------------------------------------------------
(* Frame of the array transformations *)

\* C23: the transformations are pure: whatever calls were made, obs and pred
\* are the arrays that were handed in, the hits are those of the arguments of
\* the last call, and nothing is stored on the function events2hits
C23_Pure ==
    hits.called =>
        /\ hits.TP = events2hits(obs, pred, datetime, hits.center, hits.w).TP
        /\ hits.FN = events2hits(obs, pred, datetime, hits.center, hits.w).FN
        /\ hits.FP = events2hits(obs, pred, datetime, hits.center, hits.w).FP
        /\ attrs = NoAttrs

-----------------------------------------------------------------------------
(* Properties of discharge2exceedance *)

\* the largest number of leadtimes kept for a model
KeptAtMost == [COS |-> 22, DWD |-> 28, EUD |-> 40, EUE |-> 40]

-----------------------------------------------------------------------------
(* Properties of repeated cross-validations *)

-----------------------------------------------------------------------------
(* Two-threshold against single-threshold detection *)

\* C26: with lower_bound <= upper_bound every onset of the two-threshold table
\* is an onset of the single-threshold table of the same discharge and
\* upper_bound, and with lower_bound = upper_bound the two tables are equal
C26_TwoWithinSingle ==
    (/\ events.called /\ events.lower # <<>> /\ single.called
     /\ \A stn \in DOMAIN events.table :
            events.lower[1][stn] <= events.upper[stn])
    =>  /\ DOMAIN events.table = DOMAIN single.table
        /\ \A stn \in DOMAIN events.table :
              /\ DOMAIN events.table[stn] = DOMAIN single.table[stn]
              /\ \A t \in DOMAIN events.table[stn] :
                    events.table[stn][t] => single.table[stn][t]
        /\ events.lower[1] = events.upper => events.table = single.table

\* equal bounds on a station that crosses them upwards twice
C26_Witness ==
    /\ events.called /\ events.lower # <<>> /\ single.called
    /\ events.lower[1] = events.upper
    /\ \E stn \in DOMAIN events.table :
          Cardinality({t \in DOMAIN events.table[stn] : events.table[stn][t]}) >= 2

-----------------------------------------------------------------------------
(* events2hits on datetime axes that differ *)

\* the cells of a series at the labels shared by obs and pred
Overlap(x, first) ==
    LET lo == Max(datetime.obs, datetime.pred)
        hi == Min(datetime.obs + Len(obs) - 1, datetime.pred + Len(pred) - 1)
    IN  [i \in 1..(hi - lo + 1) |-> x[lo + i - first]]

\* C27: the hits are those of obs and pred cut to the datetime labels they
\* share: events observed outside the period of pred are no misses, events
\* predicted outside the period of obs are no false alarms
C27_OverlapOnly ==
    hits.called =>
        LET r == events2hits(Overlap(obs, datetime.obs), Overlap(pred, datetime.pred),
                             NoAxes, hits.center, hits.w)
        IN  /\ hits.TP = r.TP
            /\ hits.FN = r.FN
            /\ hits.FP = r.FP

-----------------------------------------------------------------------------
(* events2hits on a perfect forecast *)

\* C28: when pred equals obs on the same datetime axis, TP is the number of
\* observed events and FN = FP = 0, whatever the window and the centering
C28_PerfectForecast ==
    (hits.called /\ pred = obs /\ datetime.obs = datetime.pred) =>
        /\ hits.TP = count_events(obs)
        /\ hits.FN = 0
        /\ hits.FP = 0

-----------------------------------------------------------------------------
(* Loss of skill along a chain of reductions *)

\* the label of the input dimension k at the cell `pos` of the returned
\* dataset, 0 when that dimension was reduced
FixedAt(out, pos, k) ==
    IF \E j \in 1..3 : out.names[j] = DimNames[k]
    THEN out.labels[CHOOSE j \in 1..3 : out.names[j] = DimNames[k]]
                   [pos[CHOOSE j \in 1..3 : out.names[j] = DimNames[k]]]
    ELSE 0

\* the cells of the input grid that were reduced into the cell `pos`
JointSlice(out, pos) ==
    {q \in XS(skill) \X YS(skill) \X CS(skill) :
        \A k \in 1..3 : FixedAt(out, pos, k) \in {0, q[k]}}

\* the largest f1 of the input over the cells reduced into `pos`
JointMax(out, pos) ==
    MaxR({skill[q[1]][q[2]][q[3]].fbeta : q \in JointSlice(out, pos)})

\* the cells of the returned dataset
Cells(out) ==
    (DOMAIN out.grid) \X (DOMAIN out.grid[1]) \X (DOMAIN out.grid[1][1])

\* one min_spread entry per name of dims
OneSpreadPerDim ==
    \/ criteria.min_spread.single
    \/ Len(criteria.min_spread.values) = Len(criteria.dims.values)

\* C29: on a grid without missing values, with tolerance tol > 0 and one
\* min_spread entry per dimension, the f1 returned for a cell is strictly
\* greater than the largest f1 of the joint grid of the n reduced dimensions
\* minus n * tol, for every order of dims and every min_spread
C29_ChainLoss ==
    (criteria.called /\ OneSpreadPerDim) =>
        LET out == criteria.result
            n   == Len(criteria.dims.values)
            tol == criteria.tolerance
        IN  /\ ~out.error
            /\ \A pos \in Cells(out) :
                  LET v == out.grid[pos[1]][pos[2]][pos[3]].fbeta
                  IN  /\ ~IsNaN(v)
                      /\ LtR(SubR(JointMax(out, pos), <<n * tol[1], tol[2]>>), v)

\* a chain of two reductions that loses one tolerance or more
C29_Witness ==
    /\ criteria.called /\ OneSpreadPerDim /\ ~criteria.result.error
    /\ Len(criteria.dims.values) = 2
    /\ \E pos \in Cells(criteria.result) :
          LET v == criteria.result.grid[pos[1]][pos[2]][pos[3]].fbeta
          IN  ~LtR(SubR(JointMax(criteria.result, pos), criteria.tolerance), v)

-----------------------------------------------------------------------------
(* Properties of hits_by_area *)

\* the stations with a catchment area of a or more
AtLeast(a) == {id \in DOMAIN station_area : station_area[id] >= a}

\* the number of stations of S with the value v of `name` at coordinate c
CountOf(S, c, name, v) ==
    Cardinality({id \in S : station_hits[id][c][name] = v})

\* the total of `name` at coordinate c over the stations of S, Missing when
\* one of them is missing
TotalOf(S, c, name) ==
    IF CountOf(S, c, name, Missing) > 0 THEN Missing
    ELSE CountOf(S, c, name, 1) + 2 * CountOf(S, c, name, 2)

\* C30: for each value a of area_ranges hits_area holds the TP, FN and FP of
\* exactly the stations with a catchment area >= a, for each coordinate of
\* the other dimension; without missing values the aggregates do not
\* increase with a, and a missing value at an included station makes the
\* aggregate missing
C30_CumulativeAreas ==
    hits_area.called =>
        LET a   == hits_area.area_ranges
            out == hits_area.result
        IN  /\ DOMAIN out = DOMAIN a
            /\ \A k \in DOMAIN a :
                  /\ DOMAIN out[k] = DOMAIN station_hits[1]
                  /\ \A c \in DOMAIN out[k] : \A name \in HitsVars :
                        /\ out[k][c][name] = TotalOf(AtLeast(a[k]), c, name)
                        /\ (\E id \in AtLeast(a[k]) :
                                station_hits[id][c][name] = Missing)
                             => out[k][c][name] = Missing
                        /\ \A j \in DOMAIN a :
                              (/\ a[j] >= a[k]
                               /\ CountOf(DOMAIN station_hits, c, name, Missing) = 0)
                              => out[j][c][name] <= out[k][c][name]

\* two thresholds that select different stations: an aggregate falls with
\* the larger threshold, and an aggregate is missing at the smaller one only
C30_Witness ==
    /\ hits_area.called
    /\ \E k, j \in DOMAIN hits_area.area_ranges :
          LET a   == hits_area.area_ranges
              out == hits_area.result
          IN  /\ a[k] < a[j]
              /\ AtLeast(a[j]) # {}
              /\ \E c \in DOMAIN out[k] :
                    /\ out[k][c].TP > out[j][c].TP
                    /\ out[j][c].TP > 0
                    /\ out[k][c].FN = Missing
                    /\ out[j][c].FN # Missing

=============================================================================
